---- MODULE Spec2Model ----
(***************************************************************************)
(* A model of gitorum: a forum whose content is a tree of signed post      *)
(* files kept in a git repository.                                         *)
(*                                                                         *)
(* Part I   - the repository layer, the join-request workflow and the      *)
(*            server handlers that drive it (specification Spec).          *)
(* Part II  - strings, the canonical form and the signature primitives     *)
(*            (specification SpecCanon).                                   *)
(* Part III - the post file format, signature verification, thread and     *)
(*            category loading (specifications SpecPost, SpecThread,       *)
(*            SpecLoad, SpecSort and SpecCategory).                        *)
(* Part IV  - one working clone step by step: working tree, index,         *)
(*            commits, pull and push (specifications SpecRepo, SpecSync).  *)
(* Part V   - the server as concurrent request handlers (SpecServer).      *)
(* Part VI  - the admin operations together (SpecAdmin).                   *)
(* Part VII - the thread list beside the thread view (SpecScan).           *)
(* Part VIII- one signature, two posts (SpecForge).                        *)
(* Part IX  - join requests and signature status (SpecBadge).              *)
(* Part X   - the sync handler with its timestamp (SpecAuto).              *)
(***************************************************************************)
EXTENDS Integers, Sequences, FiniteSets, TLC

VARIABLES
    hist,       \* hist[repo]: the commit chain of each repository (HEAD is the last)
    last,       \* the outcome of the last handler or command that ran
    input,      \* Parts II, III: the input drawn, or the writes made so far;
                \* SpecRepo: the .git directory of the clone; SpecServer:
                \* the goroutines; SpecAdmin: the categories on disk;
                \* SpecAuto: lastSyncAt
    output,     \* Parts II, III: what the functions computed from it;
                \* SpecServer: the Server struct
    dir,        \* Part III: a thread directory, file name -> file content;
                \* SpecCategory: a category directory; SpecRepo: the working tree
    keysDir,    \* Part III: the keys directory, username -> what ReadFile gives
    now         \* Part III: the clock time.Now reads, in milliseconds

vars == <<hist, last, input, output, dir, keysDir, now>>

(***************************************************************************)
(* Bounds.                                                                 *)
(***************************************************************************)
MaxCommits == 3     \* commits made on top of the initial commit
MaxBody == 2        \* longest body CanonicalForm is given, in characters
MaxClock == 2       \* last reading of the clock, in milliseconds
MaxReplies == 1     \* replies written into a thread
MaxRepoCommits == 2 \* commits of the step-by-step clone after its first
MaxFiles == 3       \* entries of a directory that is pulled into

None == "none"

(***************************************************************************)
(*                        PART I - REPOSITORY LAYER                        *)
(***************************************************************************)

Admin == "admin"
Applicants == {"bob", "carol"}
Usernames == {Admin} \cup Applicants

\* base64 public keys; KB and KX are two keypairs generated for "bob"
PubKeys == {"KA", "KB", "KX", "KC"}

\* crypto.Identity values (private halves are left out of this part)
Identities ==
    { [Username |-> Admin,   PublicKey |-> "KA"],
      [Username |-> "bob",   PublicKey |-> "KB"],
      [Username |-> "bob",   PublicKey |-> "KX"],
      [Username |-> "carol", PublicKey |-> "KC"] }

\* Two working clones and the bare remote they share.
Replicas == {"srv", "cli"}
Origin == "origin"
Repos == Replicas \cup {Origin}

\* Server.identity of the server running on each replica.
identity(r) ==
    IF r = "srv" THEN [Username |-> Admin, PublicKey |-> "KA"]
    ELSE [Username |-> "bob", PublicKey |-> "KB"]

\* ForumMeta, the content of GITORUM.toml.
ForumMeta(adminKey, auto) == [AdminPubkey |-> adminKey, AutoApproveKeys |-> auto]

\* A tree: the files a commit (and a clean working tree) holds.
\*   keys[u]     content of keys/<u>.pub,     None when the file is absent
\*   requests[u] content of requests/<u>.pub, None when the file is absent
\*   meta        GITORUM.toml
EmptyDir == [u \in Usernames |-> None]

\* repo.Init: GITORUM.toml and keys/<admin>.pub.
InitTree(meta, id) ==
    [keys     |-> [EmptyDir EXCEPT ![id.Username] = id.PublicKey],
     requests |-> EmptyDir,
     meta     |-> meta]

\* A commit: author, the replica that made it, its depth in the chain (which,
\* with the replica, stands for the parent hash), message, snapshot.
Commit(id, r, n, msg, tree) ==
    [by |-> id.Username, at |-> r, n |-> n, msg |-> msg, tree |-> tree]

InitCommit ==
    Commit(identity("srv"), "srv", 1, "init",
           InitTree(ForumMeta("KA", FALSE), identity("srv")))

HeadCommit(h) == h[Len(h)]

\* The working tree of a repository (clean: every operation commits what it writes).
Tree(r) == HeadCommit(hist[r]).tree

IsPrefix(a, b) == Len(a) <= Len(b) /\ SubSeq(b, 1, Len(a)) = a

\* The tree a history's HEAD holds.
TreeOf(h) == HeadCommit(h).tree

\* Repo.commitFiles: stage what was written and commit it as `id`.  go-git
\* refuses a commit that changes nothing (ErrEmptyCommit), so writing a file
\* back with the content it already has ends in an error.
commitFiles(h, r, id, msg, tree) ==
    IF tree = TreeOf(h)
    THEN [err |-> TRUE, h |-> h]
    ELSE [err |-> FALSE, h |-> Append(h, Commit(id, r, Len(h) + 1, msg, tree))]

\* Repo.writePublicKey: os.WriteFile on keys/<username>.pub, whatever it held.
writePublicKey(tree, username, pubkeyB64) ==
    [tree EXCEPT !.keys[username] = pubkeyB64]

\* Repo.WritePublicKey: write the key file, then commit it.
WritePublicKey(h, r, id, username, pubkeyB64) ==
    commitFiles(h, r, id, "keys: add public key",
                writePublicKey(TreeOf(h), username, pubkeyB64))

\* Repo.ReadMeta
ReadMeta(h) == TreeOf(h).meta

\* Repo.UpdateMeta: rewrite GITORUM.toml and commit it.
UpdateMeta(h, r, id, meta) ==
    commitFiles(h, r, id, "config: update forum metadata",
                [TreeOf(h) EXCEPT !.meta = meta])

\* Repo.Pull: fetch origin and fast-forward.  Nothing to do when HEAD already
\* holds origin's head; an error when the two have diverged.
Pull(h, o) ==
    IF IsPrefix(o, h) THEN [err |-> FALSE, h |-> h]
    ELSE IF IsPrefix(h, o) THEN [err |-> FALSE, h |-> o]
    ELSE [err |-> TRUE, h |-> h]

\* Repo.Push: origin takes the local chain when that is a fast-forward of it
\* (already up to date is success); a push that is not one is rejected.
Push(h, o) ==
    IF IsPrefix(o, h) THEN [err |-> FALSE, o |-> h]
    ELSE [err |-> TRUE, o |-> o]

(***************************************************************************)
(* The join-request operations of the repository layer.  Their code is not *)
(* among the source files (only their tests and callers are), so they are  *)
(* written from the specification's section 4.4.                           *)
(***************************************************************************)

\* os.ReadDir lists a directory sorted by file name.
ReadDirOrder == <<"admin", "bob", "carol">>

JoinRequest(username, pubkey) == [Username |-> username, PubKey |-> pubkey]

\* Every request file of the tree, in directory order.
AllRequestFiles(tree) ==
    LET present == SelectSeq(ReadDirOrder, LAMBDA u : tree.requests[u] # None)
    IN  [i \in 1..Len(present) |-> JoinRequest(present[i], tree.requests[present[i]])]

\* (mutant) list_pending without the approved-key filter.
JoinRequests_Unfiltered(tree) == AllRequestFiles(tree)

\* list_pending: the pending records whose username has no approved key.
JoinRequests(tree) ==
    SelectSeq(AllRequestFiles(tree), LAMBDA q : tree.keys[q.Username] = None)

\* (mutant) submit that writes the record whatever is already there.
SubmitJoinRequest_Overwrite(h, r, id) ==
    commitFiles(h, r, id, "request: join",
                [TreeOf(h) EXCEPT !.requests[id.Username] = id.PublicKey])

\* submit: write requests/<username>.pub; an error, with nothing written,
\* when a record is already pending or a key is already approved.
SubmitJoinRequest(h, r, id) ==
    LET tree == TreeOf(h) IN
    IF tree.requests[id.Username] # None \/ tree.keys[id.Username] # None
    THEN [err |-> TRUE, h |-> h]
    ELSE commitFiles(h, r, id, "request: join",
                     [tree EXCEPT !.requests[id.Username] = id.PublicKey])

\* approve: move the pending key into keys/ and remove the pending record;
\* an error when nothing is pending or the user already has a key.
ApproveJoinRequest(h, r, id, username) ==
    LET tree == TreeOf(h) IN
    IF tree.requests[username] = None \/ tree.keys[username] # None
    THEN [err |-> TRUE, h |-> h]
    ELSE commitFiles(h, r, id, "keys: approve",
                     [tree EXCEPT !.keys[username] = tree.requests[username],
                                  !.requests[username] = None])

\* reject: remove the pending record only.
RejectJoinRequest(h, r, id, username) ==
    LET tree == TreeOf(h) IN
    IF tree.requests[username] = None
    THEN [err |-> TRUE, h |-> h]
    ELSE commitFiles(h, r, id, "requests: reject",
                     [tree EXCEPT !.requests[username] = None])

(***************************************************************************)
(* The server handlers and the commands that drive the repository layer.   *)
(***************************************************************************)

\* What the last handler or command answered.
Outcome(op, r, user, status, note) ==
    [op |-> op, at |-> r, user |-> user, status |-> status, note |-> note]

\* The usernames and keys a request may carry ("" is a missing JSON field).
ReqUsernames == Applicants \cup {""}
ReqPubKeys == {"KX", ""}

\* Every commit made so far, in any repository.
AllCommits == UNION {{hist[x][i] : i \in 1..Len(hist[x])} : x \in Repos}

\* Room for `n` more commits (the model stops at MaxCommits after the first).
Room(r, n) == Cardinality(AllCommits) + n <= 1 + MaxCommits

\* (mutant) an admin test that lets every identity through.
requireAdmin_Anyone(r) == 200

\* Server.requireAdmin: the status it answers with, 200 when it lets the
\* request through.  (A server of this model always holds an identity and a
\* repository; GITORUM.toml is always readable.)
requireAdmin(r) ==
    IF identity(r).PublicKey # ReadMeta(hist[r]).AdminPubkey THEN 403 ELSE 200

\* The state after a handler committed: the local chain, then its Push
\* (a failed push is only logged).
Committed(r, h) ==
    hist' = [hist EXCEPT ![r] = h, ![Origin] = Push(h, hist[Origin]).o]

\* GET /api/admin/requests
handleJoinRequests(r) ==
    /\ UNCHANGED <<hist, input, output, dir, keysDir, now>>
    /\ IF requireAdmin(r) # 200
       THEN last' = Outcome("requests", r, "", requireAdmin(r), "")
       ELSE last' = Outcome("requests", r, "", 200, "")

\* (mutant) the approve handler with the error of ApproveJoinRequest dropped.
handleApproveRequest_IgnoreError(r, username) ==
    /\ Room(r, 1)
    /\ UNCHANGED <<input, output, dir, keysDir, now>>
    /\ IF username = ""
       THEN /\ last' = Outcome("approve", r, username, 400, "")
            /\ UNCHANGED hist
       ELSE IF requireAdmin(r) # 200
       THEN /\ last' = Outcome("approve", r, username, requireAdmin(r), "")
            /\ UNCHANGED hist
       ELSE LET res == ApproveJoinRequest(hist[r], r, identity(r), username) IN
            /\ last' = Outcome("approve", r, username, 200, "")
            /\ Committed(r, res.h)

\* POST /api/admin/approve
handleApproveRequest(r, username) ==
    /\ Room(r, 1)
    /\ UNCHANGED <<input, output, dir, keysDir, now>>
    /\ IF username = ""
       THEN /\ last' = Outcome("approve", r, username, 400, "")
            /\ UNCHANGED hist
       ELSE IF requireAdmin(r) # 200
       THEN /\ last' = Outcome("approve", r, username, requireAdmin(r), "")
            /\ UNCHANGED hist
       ELSE LET res == ApproveJoinRequest(hist[r], r, identity(r), username) IN
            IF res.err
            THEN /\ last' = Outcome("approve", r, username, 500, "")
                 /\ UNCHANGED hist
            ELSE /\ last' = Outcome("approve", r, username, 200, "")
                 /\ Committed(r, res.h)

\* (mutant) the reject handler calling the approve operation.
handleRejectRequest_Approves(r, username) ==
    /\ Room(r, 1)
    /\ UNCHANGED <<input, output, dir, keysDir, now>>
    /\ IF username = ""
       THEN /\ last' = Outcome("reject", r, username, 400, "")
            /\ UNCHANGED hist
       ELSE IF requireAdmin(r) # 200
       THEN /\ last' = Outcome("reject", r, username, requireAdmin(r), "")
            /\ UNCHANGED hist
       ELSE LET res == ApproveJoinRequest(hist[r], r, identity(r), username) IN
            IF res.err
            THEN /\ last' = Outcome("reject", r, username, 500, "")
                 /\ UNCHANGED hist
            ELSE /\ last' = Outcome("reject", r, username, 200, "")
                 /\ Committed(r, res.h)

\* POST /api/admin/reject
handleRejectRequest(r, username) ==
    /\ Room(r, 1)
    /\ UNCHANGED <<input, output, dir, keysDir, now>>
    /\ IF username = ""
       THEN /\ last' = Outcome("reject", r, username, 400, "")
            /\ UNCHANGED hist
       ELSE IF requireAdmin(r) # 200
       THEN /\ last' = Outcome("reject", r, username, requireAdmin(r), "")
            /\ UNCHANGED hist
       ELSE LET res == RejectJoinRequest(hist[r], r, identity(r), username) IN
            IF res.err
            THEN /\ last' = Outcome("reject", r, username, 500, "")
                 /\ UNCHANGED hist
            ELSE /\ last' = Outcome("reject", r, username, 200, "")
                 /\ Committed(r, res.h)

\* POST /api/admin/addkey
handleAdminAddKey(r, username, pubkey) ==
    /\ Room(r, 1)
    /\ UNCHANGED <<input, output, dir, keysDir, now>>
    /\ IF username = "" \/ pubkey = ""
       THEN /\ last' = Outcome("addkey", r, username, 400, "")
            /\ UNCHANGED hist
       ELSE IF requireAdmin(r) # 200
       THEN /\ last' = Outcome("addkey", r, username, requireAdmin(r), "")
            /\ UNCHANGED hist
       ELSE LET res == WritePublicKey(hist[r], r, identity(r), username, pubkey) IN
            IF res.err
            THEN /\ last' = Outcome("addkey", r, username, 500, "")
                 /\ UNCHANGED hist
            ELSE /\ last' = Outcome("addkey", r, username, 200, "")
                 /\ Committed(r, res.h)

\* The auto-approve loop of handleSync: approve each listed request in turn;
\* a failed approval is logged and the loop goes on.
RECURSIVE ApproveAll(_, _, _, _)
ApproveAll(h, r, id, reqs) ==
    IF reqs = <<>> THEN h
    ELSE ApproveAll(ApproveJoinRequest(h, r, id, reqs[1].Username).h,
                    r, id, Tail(reqs))

\* GET /api/sync: pull; auto-approve when GITORUM.toml says so and the
\* running identity is the admin; push.
handleSync(r) ==
    /\ UNCHANGED <<input, output, dir, keysDir, now>>
    /\ LET pull == Pull(hist[r], hist[Origin]) IN
       IF pull.err
       THEN /\ last' = Outcome("sync", r, "", 500, "")
            /\ UNCHANGED hist
       ELSE LET meta == ReadMeta(pull.h)
                h2 == IF meta.AutoApproveKeys
                         /\ identity(r).PublicKey = meta.AdminPubkey
                      THEN ApproveAll(pull.h, r, identity(r),
                                      JoinRequests(TreeOf(pull.h)))
                      ELSE pull.h
            IN  /\ Room(r, Len(h2) - Len(pull.h))
                /\ last' = Outcome("sync", r, "", 200, "")
                /\ Committed(r, h2)

\* `gitorum request`: submit a join request for the identity file `id`,
\* unless its username is already approved or already pending; then push.
runRequest(r, id) ==
    /\ Room(r, 1)
    /\ UNCHANGED <<input, output, dir, keysDir, now>>
    /\ IF Tree(r).keys[id.Username] # None
       THEN /\ last' = Outcome("request", r, id.Username, 0, "already approved")
            /\ UNCHANGED hist
       ELSE IF Tree(r).requests[id.Username] # None
       THEN /\ last' = Outcome("request", r, id.Username, 0, "already pending")
            /\ UNCHANGED hist
       ELSE LET res == SubmitJoinRequest(hist[r], r, id) IN
            IF res.err
            THEN /\ last' = Outcome("request", r, id.Username, 1, "submit request")
                 /\ UNCHANGED hist
            ELSE /\ last' = Outcome("request", r, id.Username, 0, "submitted")
                 /\ Committed(r, res.h)

\* Repo.SubmitJoinRequest called directly, as the repository tests do.
Submit(r, id) ==
    /\ Room(r, 1)
    /\ UNCHANGED <<input, output, dir, keysDir, now>>
    /\ LET res == SubmitJoinRequest(hist[r], r, id) IN
       /\ last' = Outcome("submit", r, id.Username, IF res.err THEN 1 ELSE 0, "")
       /\ hist' = [hist EXCEPT ![r] = res.h]

\* `gitorum config --auto-approve=<auto>`: rewrite GITORUM.toml, no push.
runConfig(r, auto) ==
    /\ Room(r, 1)
    /\ UNCHANGED <<input, output, dir, keysDir, now>>
    /\ LET meta == ReadMeta(hist[r])
           res == UpdateMeta(hist[r], r, identity(r),
                             [meta EXCEPT !.AutoApproveKeys = auto])
       IN  /\ last' = Outcome("config", r, "", IF res.err THEN 1 ELSE 0, "")
           /\ hist' = [hist EXCEPT ![r] = res.h]

NoInput == <<>>

Init ==
    /\ hist = [x \in Repos |-> <<InitCommit>>]
    /\ last = Outcome("init", "srv", "", 0, "")
    /\ input = NoInput
    /\ output = NoInput
    /\ dir = NoInput
    /\ keysDir = NoInput
    /\ now = 0

Next ==
    \/ \E r \in Replicas : handleJoinRequests(r)
    \/ \E r \in Replicas, u \in ReqUsernames : handleApproveRequest(r, u)
    \/ \E r \in Replicas, u \in ReqUsernames : handleRejectRequest(r, u)
    \/ \E r \in Replicas, u \in ReqUsernames, k \in ReqPubKeys :
          handleAdminAddKey(r, u, k)
    \/ \E r \in Replicas : handleSync(r)
    \/ \E id \in Identities : runRequest("cli", id)
    \/ \E id \in Identities : Submit("cli", id)
    \/ \E auto \in BOOLEAN : runConfig("srv", auto)

Spec == Init /\ [][Next]_vars

(***************************************************************************)
(* Properties of the join-request workflow.                                *)
(***************************************************************************)

\* The usernames JoinRequests() lists for a tree.
Listed(tree) ==
    {JoinRequests(tree)[i].Username : i \in 1..Len(JoinRequests(tree))}

\* The step is handler or command `op` answering `status`.
Answered(op, status) == last'.op = op /\ last'.status = status

\* C1: whenever approving u succeeds while requests/u.pub is pending, the
\* resulting tree has keys/u.pub holding the requested key and no
\* requests/u.pub, and JoinRequests() no longer lists u.
C1_ApproveMovesKey ==
    [][ (Answered("approve", 200)
           /\ Tree(last'.at).requests[last'.user] # None)
        => LET u == last'.user
               before == Tree(last'.at)
               after == TreeOf(hist'[last'.at])
           IN  /\ after.keys[u] = before.requests[u]
               /\ after.requests[u] = None
               /\ u \notin Listed(after) ]_vars

\* C1 witness: an approval has succeeded and left the key in keys/.
C1_Witness ==
    /\ last.op = "approve" /\ last.status = 200
    /\ Tree(last.at).keys[last.user] \in PubKeys
    /\ Tree(last.at).requests[last.user] = None

\* C2: whenever rejecting u succeeds while requests/u.pub is pending, the
\* request file is removed, keys/ is left exactly as it was, and
\* JoinRequests() does not list u.
C2_RejectRemovesOnly ==
    [][ (Answered("reject", 200)
           /\ Tree(last'.at).requests[last'.user] # None)
        => LET u == last'.user
               before == Tree(last'.at)
               after == TreeOf(hist'[last'.at])
           IN  /\ after.requests[u] = None
               /\ after.keys = before.keys
               /\ u \notin Listed(after) ]_vars

\* C2 witness: a rejection has succeeded; the user has neither file.
C2_Witness ==
    /\ last.op = "reject" /\ last.status = 200
    /\ Tree(last.at).keys[last.user] = None
    /\ Tree(last.at).requests[last.user] = None

\* C3: in every reachable state of every repository, JoinRequests() lists no
\* username that has a key in keys/.
C3_NoApprovedPending ==
    \A x \in Repos : \A u \in Listed(TreeOf(hist[x])) :
        TreeOf(hist[x]).keys[u] = None

\* C3 witness: a stale request file sits beside an approved key, in a clone
\* that got it by pulling, while another user is listed as pending.
C3_Witness ==
    /\ last.op = "sync" /\ last.status = 200
    /\ \E u \in Applicants :
          /\ Tree(last.at).keys[u] # None
          /\ Tree(last.at).requests[u] # None
    /\ Listed(Tree(last.at)) # {}

\* C4: submitting a join request for a username that already has a pending
\* request or an approved key changes nothing: no commit, no push, the
\* pending record and keys/ as they were.
C4_SubmitNoOverwrite ==
    [][ (last'.op \in {"submit", "request"}
           /\ (\/ Tree(last'.at).requests[last'.user] # None
               \/ Tree(last'.at).keys[last'.user] # None))
        => hist' = hist ]_vars

\* C4 witness: a direct submit was refused because a record was pending.
C4_Witness ==
    /\ last.op = "submit" /\ last.status = 1
    /\ Tree(last.at).requests[last.user] # None

\* C5 (as claimed): adding a key for a username that already has one, by
\* approving a request or by the add-key operation, is answered with an
\* error or changes nothing, and the stored key stays what it was.
C5_NoKeyOverwrite ==
    [][ (last'.op \in {"addkey", "approve"}
           /\ last'.user \in Applicants
           /\ requireAdmin(last'.at) = 200
           /\ Tree(last'.at).keys[last'.user] # None)
        => /\ TreeOf(hist'[last'.at]).keys[last'.user]
                = Tree(last'.at).keys[last'.user]
           /\ (last'.status # 200 \/ hist' = hist) ]_vars

(***************************************************************************)
(*              PART II - STRINGS, CANONICAL FORM, SIGNATURES              *)
(*                                                                         *)
(* A Go string is a sequence of characters; a character is a one-letter    *)
(* string.  Values that are opaque to the code (base64 keys and            *)
(* signatures, sha-256 digests, well-formed timestamps) are one element    *)
(* each: they hold no character any function looks for.                    *)
(***************************************************************************)

NL == "\n"

\* The characters the code compares, in ascending byte order.
ByteOrder ==
    <<"\n", " ", "\"", "+", ".", "=", "A", "E", "M", "T", "Z", "\\", "a",
      "b", "c", "e", "g", "h", "i", "k", "l", "m", "n", "o", "p", "r", "s",
      "t", "u", "x", "y">>

\* The rank of each character's byte value.
CodeOf ==
    [c \in {ByteOrder[i] : i \in 1..Len(ByteOrder)} |->
        CHOOSE i \in 1..Len(ByteOrder) : ByteOrder[i] = c]

\* Go's s < t on strings: byte-wise lexicographic.
RECURSIVE StrLess(_, _)
StrLess(s, t) ==
    IF t = <<>> THEN FALSE
    ELSE IF s = <<>> THEN TRUE
    ELSE IF CodeOf[s[1]] < CodeOf[t[1]] THEN TRUE
    ELSE IF CodeOf[s[1]] > CodeOf[t[1]] THEN FALSE
    ELSE StrLess(Tail(s), Tail(t))

\* All strings over alphabet S of length at most n.
Strings(S, n) == UNION {[1..k -> S] : k \in 0..n}

\* The elements of a sequence.
Range(s) == {s[i] : i \in 1..Len(s)}

\* The field names of a post's front matter.
author == <<"a", "u", "t", "h", "o", "r">>
parent == <<"p", "a", "r", "e", "n", "t">>
pubkey == <<"p", "u", "b", "k", "e", "y">>
timestamp == <<"t", "i", "m", "e", "s", "t", "a", "m", "p">>
signature == <<"s", "i", "g", "n", "a", "t", "u", "r", "e">>

\* Insert key k into the ascending sequence ks.
RECURSIVE Insert(_, _)
Insert(k, ks) ==
    IF ks = <<>> THEN <<k>>
    ELSE IF StrLess(k, ks[1]) THEN <<k>> \o ks
    ELSE <<ks[1]>> \o Insert(k, Tail(ks))

\* (mutant) sort.Strings left out: the keys stay in map iteration order.
SortStrings_Unsorted(keys) == keys

\* sort.Strings: the keys in ascending byte-wise order.
RECURSIVE SortStrings(_)
SortStrings(keys) ==
    IF keys = <<>> THEN <<>>
    ELSE Insert(keys[1], SortStrings(Tail(keys)))

\* The "key=value\n" lines of the keys ks, in that order.
RECURSIVE Lines(_, _)
Lines(ks, fields) ==
    IF ks = <<>> THEN <<>>
    ELSE ks[1] \o <<"=">> \o fields[ks[1]] \o <<NL>> \o Lines(Tail(ks), fields)

\* (mutant) CanonicalForm that leaves the parent field out of what is signed.
CanonicalForm_DropsParent(order, fields, body) ==
    LET keys == SelectSeq(order, LAMBDA k : k # signature /\ k # parent)
    IN  Lines(SortStrings(keys), fields) \o <<NL>> \o body

\* crypto.CanonicalForm.  `order` is the order in which `range fields`
\* yields the keys of the map, which Go leaves unspecified.
CanonicalForm(order, fields, body) ==
    LET keys == SelectSeq(order, LAMBDA k : k # signature)
    IN  Lines(SortStrings(keys), fields) \o <<NL>> \o body

\* Ed25519 keypairs, as the base64 strings an identity file holds.
KeyPairs ==
    { [PublicKey |-> "KA", PrivateKey |-> "SA"],
      [PublicKey |-> "KB", PrivateKey |-> "SB"],
      [PublicKey |-> "KX", PrivateKey |-> "SX"],
      [PublicKey |-> "KC", PrivateKey |-> "SC"] }

\* The private half of a public key.
PrivOf(pub) == (CHOOSE kp \in KeyPairs : kp.PublicKey = pub).PrivateKey

\* Base64 strings that are no signature of anything, and one that is not base64.
ForgedSig == "AAAA"
NotBase64 == "!sig"

\* A string written out as one opaque value.
RECURSIVE Flat(_)
Flat(s) ==
    IF s = <<>> THEN ""
    ELSE IF Len(s) = 1 THEN s[1]
    ELSE Flat(SubSeq(s, 1, Len(s) \div 2))
         \o Flat(SubSeq(s, Len(s) \div 2 + 1, Len(s)))

\* ed25519.Sign then base64: deterministic in key and message, and no two
\* (key, message) pairs share a signature.
Sign(priv, message) == <<priv \o ":" \o Flat(message)>>

\* ed25519.Verify: exactly the signature of `message` under pub's private
\* half verifies.
Ed25519Verify(pub, message, sig) == sig = Sign(PrivOf(pub), message)

\* crypto.Verify: "" for nil, else the error.
Verify(pub, message, sigB64) ==
    IF sigB64 = <<NotBase64>> THEN "decode signature"
    ELSE IF ~Ed25519Verify(pub, message, sigB64)
    THEN "signature verification failed"
    ELSE ""

\* Key file contents that are no public key.
NotBase64Key == "!key"
ShortKey == "c2hvcnQ="

\* crypto.VerifyWithPublicKeyB64: decode the key, check its length, verify.
VerifyWithPublicKeyB64(pubB64, message, sigB64) ==
    IF pubB64 = <<NotBase64Key>> THEN "decode public key"
    ELSE IF ~(Len(pubB64) = 1 /\ \E kp \in KeyPairs : pubB64[1] = kp.PublicKey)
    THEN "public key: expected 32 bytes"
    ELSE Verify(pubB64[1], message, sigB64)

(***************************************************************************)
(* Specification SpecCanon: CanonicalForm, Sign and Verify applied to      *)
(* drawn field maps and bodies.                                            *)
(***************************************************************************)

BodyChars == {"x", NL}
Bodies == Strings(BodyChars, MaxBody)

PostKeys == {author, parent, pubkey, timestamp}

\* The field maps drawn: a post's four signed fields, the same with a
\* signature entry, and a map of other keys (a prefix of another key, an
\* upper-case key).
FieldValues == {<<"a">>, <<"b", NL>>}
OtherKeys == {author, <<"p", "u", "b">>, pubkey, <<"Z">>}
FieldMaps ==
    LET base == [k \in PostKeys |->
                    IF k = pubkey THEN <<"KB">>
                    ELSE IF k = timestamp THEN <<"2026-02-17T10:00:00Z">>
                    ELSE <<"a">>]
        vary(f) == {[f EXCEPT ![author] = a, ![parent] = q] :
                        a \in FieldValues, q \in FieldValues \cup {<<>>}}
    IN  vary(base)
        \cup {[k \in PostKeys \cup {signature} |->
                  IF k = signature THEN <<ForgedSig>> ELSE f[k]] : f \in vary(base)}
        \cup {[k \in OtherKeys |-> IF k = author THEN a ELSE <<"b">>] :
                  a \in FieldValues}

\* The ascending arrangement of a set of keys.
Ascending(D) ==
    CHOOSE o \in [1..Cardinality(D) -> D] :
        /\ Range(o) = D
        /\ \A i \in 1..(Len(o) - 1) : StrLess(o[i], o[i + 1])

\* Every order in which `range` may yield the keys of a map.
Orders(fields) ==
    LET D == DOMAIN fields
    IN  {o \in [1..Cardinality(D) -> D] : Range(o) = D}

Reverse(o) == [i \in 1..Len(o) |-> o[Len(o) + 1 - i]]

\* The orders that start anywhere in the ascending one and wrap around.
Rotations(fields) ==
    LET asc == Ascending(DOMAIN fields)
        n   == Len(asc)
    IN  {[i \in 1..n |-> asc[((i - 1 + d) % n) + 1]] : d \in 0..(n - 1)}

\* What is done to a signed message before it is verified.
Tampers(fields, body) ==
    {[kind |-> "none", key |-> <<>>, value |-> <<>>]}
    \cup {[kind |-> "body", key |-> <<>>, value |-> b] : b \in Bodies \ {body}}
    \cup UNION {{[kind |-> "field", key |-> k, value |-> v] :
                    v \in (FieldValues \cup {<<>>}) \ {fields[k]}} :
                 k \in DOMAIN fields \ {signature}}

Signers == {kp \in KeyPairs : kp.PublicKey \in {"KB", "KX"}}

InitCanon ==
    /\ hist = [x \in Repos |-> <<InitCommit>>]
    /\ last = Outcome("init", "srv", "", 0, "")
    /\ input \in [fields : FieldMaps, body : Bodies]
    /\ output = [op |-> "none"]
    /\ dir = NoInput
    /\ keysDir = NoInput
    /\ now = 0

\* One call of CanonicalForm, the map iterated in any order.
Canonicalize ==
    /\ output.op = "none"
    /\ \E order \in Orders(input.fields) :
          output' = [op |-> "canon",
                     canon |-> CanonicalForm(order, input.fields, input.body)]
    /\ UNCHANGED <<hist, last, input, dir, keysDir, now>>

\* Sign the canonical form with `kp`; then rebuild the canonical form from
\* the fields with the signature added and `tamper` applied (the map is
\* iterated in another order this time) and verify under `pub`.  The orders
\* drawn here are the rotations of the ascending one; Canonicalize draws all.
SignVerify ==
    /\ output.op = "none"
    /\ \E order \in Rotations(input.fields), kp \in Signers, pub \in {"KB", "KX"},
          tamper \in Tampers(input.fields, input.body) :
          LET sig == Sign(kp.PrivateKey,
                          CanonicalForm(order, input.fields, input.body))
              keys2 == DOMAIN input.fields \cup {signature}
              fields2 == [k \in keys2 |->
                             IF k = signature THEN sig
                             ELSE IF tamper.kind = "field" /\ k = tamper.key
                             THEN tamper.value
                             ELSE input.fields[k]]
              body2 == IF tamper.kind = "body" THEN tamper.value ELSE input.body
              order2 == <<signature>>
                        \o SelectSeq(Reverse(order), LAMBDA k : k # signature)
          IN  output' = [op |-> "verify",
                         signer |-> kp.PublicKey,
                         pub |-> pub,
                         tamper |-> tamper.kind,
                         err |-> Verify(pub, CanonicalForm(order2, fields2, body2),
                                        sig)]
    /\ UNCHANGED <<hist, last, input, dir, keysDir, now>>

NextCanon == Canonicalize \/ SignVerify

SpecCanon == InitCanon /\ [][NextCanon]_vars

\* C9: a signature made over the canonical form verifies under the signer's
\* public key when nothing was changed (the signature entry added to the
\* fields changes nothing), and fails under another keypair's public key,
\* with another body, or with another value in any one signed field.
C9_SignVerify ==
    output.op = "verify" =>
        (output.err = "" <=> (output.pub = output.signer /\ output.tamper = "none"))

\* C9 witnesses: a verification that succeeded, and one refused because a
\* single field was changed.
C9_Witness ==
    /\ output.op = "verify"
    /\ signature \in DOMAIN input.fields
    /\ output.pub = output.signer
    /\ output.tamper = "field"
    /\ output.err = "signature verification failed"

\* C10: whatever the map's iteration order, CanonicalForm is the lines
\* key=value\n of every key but "signature", in ascending byte-wise order,
\* one empty line, then the body.
C10_CanonicalDeterministic ==
    output.op = "canon" =>
        output.canon =
            Lines(Ascending(DOMAIN input.fields \ {signature}), input.fields)
            \o <<NL>> \o input.body

\* C10 witness: a map with a signature entry and an upper-case key's
\* neighbours was serialized, body ending in a newline.
C10_Witness ==
    /\ output.op = "canon"
    /\ signature \in DOMAIN input.fields
    /\ input.body # <<>>
    /\ input.body[Len(input.body)] = NL

(***************************************************************************)
(*             PART III - POST FILES, SIGNATURE STATUS, THREADS            *)
(*                                                                         *)
(* A post file is a string as in Part II.  time.Time is a count of         *)
(* seconds, 0 for the zero time; markdown rendering (BodyHTML) is left     *)
(* out, it reads the body and changes nothing.                             *)
(***************************************************************************)

\* The bell character, which Go quotes as \a.
BEL == "BEL"

\* What a backslash escape of a TOML basic string stands for; \a, \v and
\* the like are not TOML.
Escapes ==
    [c \in {"\"", "\\", "n", "b", "t", "f", "r"} |->
        CASE c = "\"" -> "\""
          [] c = "\\" -> "\\"
          [] c = "n" -> NL
          [] c = "b" -> "BS"
          [] c = "t" -> "TAB"
          [] c = "f" -> "FF"
          [] c = "r" -> "CR"]

\* strconv.Quote without the enclosing quotes: ", \ and the control
\* characters are escaped, every other character stands for itself.
RECURSIVE QuoteChars(_)
QuoteChars(s) ==
    IF s = <<>> THEN <<>>
    ELSE (CASE s[1] = "\"" -> <<"\\", "\"">>
            [] s[1] = "\\" -> <<"\\", "\\">>
            [] s[1] = NL -> <<"\\", "n">>
            [] s[1] = BEL -> <<"\\", "a">>
            [] OTHER -> <<s[1]>>) \o QuoteChars(Tail(s))

\* fmt's %q verb on a string.
Quote(s) == <<"\"">> \o QuoteChars(s) \o <<"\"">>

\* The characters of a TOML bare key.
BareKeyChars ==
    {"a", "b", "c", "e", "g", "h", "i", "k", "m", "n", "o", "p", "r", "s",
     "t", "u", "x", "y", "Z"}

\* The TOML lexer on the rest s of one line whose value is a basic string,
\* having read key k and value v so far.  Its states: before the key
\* ("start"), in the key ("key"), before the equals sign ("eq"), before
\* the opening quote ("open"), in the string ("val"), after a backslash
\* ("esc"), after the closing quote ("end").  A control character may not
\* stand in the string unescaped.
RECURSIVE LexLine(_, _, _, _)
LexLine(s, st, k, v) ==
    LET c   == s[1]
        bad == [kind |-> "error", key |-> <<>>, value |-> <<>>]
    IN  IF s = <<>>
        THEN (CASE st = "start" -> [kind |-> "blank", key |-> <<>>, value |-> <<>>]
                [] st = "end" -> [kind |-> "pair", key |-> k, value |-> v]
                [] OTHER -> bad)
        ELSE CASE st = "start" ->
                    IF c = " " THEN LexLine(Tail(s), "start", k, v)
                    ELSE IF c \in BareKeyChars
                    THEN LexLine(Tail(s), "key", <<c>>, v)
                    ELSE bad
               [] st = "key" ->
                    IF c \in BareKeyChars
                    THEN LexLine(Tail(s), "key", Append(k, c), v)
                    ELSE IF c = " " THEN LexLine(Tail(s), "eq", k, v)
                    ELSE IF c = "=" THEN LexLine(Tail(s), "open", k, v)
                    ELSE bad
               [] st = "eq" ->
                    IF c = " " THEN LexLine(Tail(s), "eq", k, v)
                    ELSE IF c = "=" THEN LexLine(Tail(s), "open", k, v)
                    ELSE bad
               [] st = "open" ->
                    IF c = " " THEN LexLine(Tail(s), "open", k, v)
                    ELSE IF c = "\"" THEN LexLine(Tail(s), "val", k, v)
                    ELSE bad
               [] st = "val" ->
                    IF c = "\"" THEN LexLine(Tail(s), "end", k, v)
                    ELSE IF c = "\\" THEN LexLine(Tail(s), "esc", k, v)
                    ELSE IF c \in {NL, BEL, "BS", "FF", "CR"} THEN bad
                    ELSE LexLine(Tail(s), "val", k, Append(v, c))
               [] st = "esc" ->
                    IF c \in DOMAIN Escapes
                    THEN LexLine(Tail(s), "val", k, Append(v, Escapes[c]))
                    ELSE bad
               [] OTHER ->
                    IF c = " " THEN LexLine(Tail(s), "end", k, v) ELSE bad

\* One line of a TOML document: blank, key = "value", or an error.
DecodeLine(line) == LexLine(line, "start", <<>>, <<>>)

\* toml.Decode on the lines of a document: the table of its keys, or an
\* error for a malformed line or a key defined twice.
RECURSIVE TomlDecode(_, _)
TomlDecode(lines, table) ==
    LET define(d) ==
            IF d.kind = "blank" THEN TomlDecode(Tail(lines), table)
            ELSE IF d.kind = "error" \/ d.key \in DOMAIN table
            THEN [err |-> "decode TOML front matter", table |-> table]
            ELSE TomlDecode(Tail(lines), (d.key :> d.value) @@ table)
    IN  IF lines = <<>> THEN [err |-> "", table |-> table]
        ELSE define(DecodeLine(lines[1]))

\* strings.Split(s, "\n"): the pieces between the newlines, one more than
\* there are newlines.
Split(s) ==
    LET newlines == {i \in 1..Len(s) : s[i] = NL}
        n        == Cardinality(newlines)
        cut(k)   == IF k = 0 THEN 0
                    ELSE IF k > n THEN Len(s) + 1
                    ELSE CHOOSE i \in newlines :
                             Cardinality({j \in newlines : j <= i}) = k
    IN  [k \in 1..(n + 1) |-> SubSeq(s, cut(k - 1) + 1, cut(k) - 1)]

\* strings.Join(lines, "\n")
RECURSIVE Join(_)
Join(lines) ==
    IF lines = <<>> THEN <<>>
    ELSE IF Len(lines) = 1 THEN lines[1]
    ELSE lines[1] \o <<NL>> \o Join(Tail(lines))

\* strings.TrimSuffix(s, "\n")
TrimSuffix(s) ==
    IF s # <<>> /\ s[Len(s)] = NL THEN SubSeq(s, 1, Len(s) - 1) ELSE s

\* strings.TrimSpace
RECURSIVE TrimSpace(_)
TrimSpace(s) ==
    IF s # <<>> /\ s[1] \in {" ", NL, "TAB", "CR"} THEN TrimSpace(Tail(s))
    ELSE IF s # <<>> /\ s[Len(s)] \in {" ", NL, "TAB", "CR"}
    THEN TrimSpace(SubSeq(s, 1, Len(s) - 1))
    ELSE s

\* The fence of the front matter.
Fence == <<"+", "+", "+">>

\* rawFrontMatter: a key the document does not define decodes to "".
rawFrontMatter(table) ==
    [k \in PostKeys \cup {signature} |->
        IF k \in DOMAIN table THEN table[k] ELSE <<>>]

\* parseFrontMatter: the front matter and the body of a file.
parseFrontMatter(content) ==
    LET none == rawFrontMatter(<<>>)
        body(after) ==
            TrimSuffix(Join(IF after # <<>> /\ after[1] = <<>>
                            THEN Tail(after) ELSE after))
        fenced(lines, closeAt, decoded) ==
            IF decoded.err # ""
            THEN [err |-> decoded.err, fm |-> none, body |-> <<>>]
            ELSE [err |-> "", fm |-> rawFrontMatter(decoded.table),
                  body |-> body(SubSeq(lines, closeAt + 1, Len(lines)))]
        closed(lines, closeAt) ==
            IF closeAt = 0
            THEN [err |-> "front matter closing '+++' not found",
                  fm |-> none, body |-> <<>>]
            ELSE fenced(lines, closeAt,
                        TomlDecode(SubSeq(lines, 2, closeAt - 1), <<>>))
        opened(lines) ==
            IF lines[1] # Fence
            THEN [err |-> "file does not begin with front matter fence '+++'",
                  fm |-> none, body |-> <<>>]
            ELSE closed(lines,
                        IF \E i \in 2..Len(lines) : lines[i] = Fence
                        THEN CHOOSE i \in 2..Len(lines) :
                                 /\ lines[i] = Fence
                                 /\ \A j \in 2..(i - 1) : lines[j] # Fence
                        ELSE 0)
    IN  opened(Split(content))

\* SigStatus
SigValid == "valid"
SigInvalid == "invalid"
SigMissing == "missing"

\* The seconds of the clock reading `ms`: two readings fall in each second.
Second(ms) == ms \div 2

\* Time.Format(time.RFC3339) of a UTC time, as one opaque string.
RFC3339(sec) == "2024-02-16T22:44:1" \o ToString(sec) \o "Z"

\* time.Parse(time.RFC3339, s): the time, counted from 1 (0 is the zero
\* time.Time), or an error.
TimeParse(s) ==
    IF Len(s) = 1 /\ \E sec \in 0..Second(MaxClock) : s[1] = RFC3339(sec)
    THEN [err |-> "",
          t |-> 1 + (CHOOSE sec \in 0..Second(MaxClock) : s[1] = RFC3339(sec))]
    ELSE [err |-> "parse timestamp", t |-> 0]

\* A Post whose fields all have their zero value.
ZeroPost ==
    [Author |-> <<>>, PubKey |-> <<>>, Timestamp |-> 0, TimestampRaw |-> <<>>,
     Parent |-> <<>>, Signature |-> <<>>, Body |-> <<>>, Filename |-> <<>>,
     SigStatus |-> SigValid, SigError |-> ""]

\* forum.ParsePost
ParsePost(filename, content) ==
    LET timed(parsed, ts) ==
            IF ts.err # "" THEN [err |-> ts.err, post |-> ZeroPost]
            ELSE [err |-> "",
                  post |-> [ZeroPost EXCEPT
                               !.Author = parsed.fm[author],
                               !.PubKey = parsed.fm[pubkey],
                               !.Timestamp = ts.t,
                               !.TimestampRaw = parsed.fm[timestamp],
                               !.Parent = parsed.fm[parent],
                               !.Signature = parsed.fm[signature],
                               !.Body = parsed.body,
                               !.Filename = filename]]
        split(parsed) ==
            IF parsed.err # "" THEN [err |-> parsed.err, post |-> ZeroPost]
            ELSE timed(parsed, TimeParse(parsed.fm[timestamp]))
    IN  split(parseFrontMatter(content))

\* What os.ReadFile gives for a key file: a regular file written by
\* writePublicKey, and no file at all.
KeyFile(pubkeyB64) == [err |-> "", data |-> <<pubkeyB64, NL>>]
NoKeyFile == [err |-> "ENOENT", data |-> <<>>]

\* os.ReadFile(<keysDir>/<author>.pub): only a username names a file.
ReadKeyFile(keys, name) ==
    IF Len(name) = 1 /\ name[1] \in DOMAIN keys THEN keys[name[1]]
    ELSE NoKeyFile

\* The map VerifySignature builds from a post, and the order its keys are
\* written in (CanonicalForm sorts them).
PostFields(p) ==
    [k \in PostKeys \cup {signature} |->
        CASE k = author -> p.Author
          [] k = pubkey -> p.PubKey
          [] k = timestamp -> p.TimestampRaw
          [] k = parent -> p.Parent
          [] k = signature -> p.Signature]

FieldOrder == <<author, pubkey, timestamp, parent, signature>>

\* (mutant) VerifySignature that reports a missing key file as an invalid
\* signature.
VerifySignature_NoMissing(p, keys) ==
    LET file == ReadKeyFile(keys, p.Author)
        err  == VerifyWithPublicKeyB64(TrimSpace(file.data),
                    CanonicalForm(FieldOrder, PostFields(p), p.Body),
                    p.Signature)
    IN  IF file.err # "" \/ err # ""
        THEN [p EXCEPT !.SigStatus = SigInvalid, !.SigError = "invalid"]
        ELSE [p EXCEPT !.SigStatus = SigValid]

\* Post.VerifySignature: the post with SigStatus and SigError set.
VerifySignature(p, keys) ==
    LET file == ReadKeyFile(keys, p.Author)
        err  == VerifyWithPublicKeyB64(TrimSpace(file.data),
                    CanonicalForm(FieldOrder, PostFields(p), p.Body),
                    p.Signature)
    IN  IF file.err = "ENOENT"
        THEN [p EXCEPT !.SigStatus = SigMissing,
                       !.SigError = "no public key for author"]
        ELSE IF file.err # ""
        THEN [p EXCEPT !.SigStatus = SigInvalid, !.SigError = "read key file"]
        ELSE IF err # ""
        THEN [p EXCEPT !.SigStatus = SigInvalid, !.SigError = err]
        ELSE [p EXCEPT !.SigStatus = SigValid]

\* Post.Format: the file of a post.
Format(p) ==
    Fence \o <<NL>>
    \o author \o <<" ", " ", " ", " ", "=", " ">> \o Quote(p.Author) \o <<NL>>
    \o pubkey \o <<" ", " ", " ", " ", "=", " ">> \o Quote(p.PubKey) \o <<NL>>
    \o timestamp \o <<" ", "=", " ">> \o Quote(p.TimestampRaw) \o <<NL>>
    \o parent \o <<" ", " ", " ", " ", "=", " ">> \o Quote(p.Parent) \o <<NL>>
    \o signature \o <<" ", "=", " ">> \o Quote(p.Signature) \o <<NL>>
    \o Fence \o <<NL, NL>>
    \o p.Body

\* forum.PostHash: the hex sha-256 of a file, one opaque string; no two
\* files share one.
PostHash(content) == <<"sha256:" \o Flat(content)>>

\* Identity.Fingerprint: the first 8 characters of the public key.
Fingerprint(id) == <<"fp8:" \o id.PublicKey>>

\* Identity.PrivKey
PrivKey(id) == PrivOf(id.PublicKey)

\* forum.SignPost, time.Now() reading `ms`.
SignPost(id, parentHash, body, ms) ==
    LET tsRaw  == <<RFC3339(Second(ms))>>
        fields == [k \in PostKeys |->
                      CASE k = author -> <<id.Username>>
                        [] k = pubkey -> Fingerprint(id)
                        [] k = timestamp -> tsRaw
                        [] k = parent -> parentHash]
        canonical == CanonicalForm(<<author, pubkey, timestamp, parent>>,
                                   fields, body)
    IN  [ZeroPost EXCEPT
            !.Author = <<id.Username>>,
            !.PubKey = Fingerprint(id),
            !.Timestamp = 1 + Second(ms),
            !.TimestampRaw = tsRaw,
            !.Parent = parentHash,
            !.Signature = Sign(PrivKey(id), canonical),
            !.Body = body]

(***************************************************************************)
(* Thread directories.  A file name is a string whose opaque parts (the    *)
(* digits, the digest) are one element each.  A directory is a function    *)
(* from the names of its entries to what os.ReadDir and os.ReadFile give   *)
(* for them: IsDir, and the bytes of a regular file.                       *)
(***************************************************************************)

RootFilename == <<"0000_root", ".md">>

\* Time.UnixMilli as 13 decimal digits.
UnixMilli(ms) == "170812345600" \o ToString(ms)

\* The bodies written into threads, in the order of their sha-256 digests.
ThreadBodies == << <<"x">>, <<"x", NL>>, <<NL, "x">> >>

\* The first 8 hex digits of sha-256(body).
Digest8(body) == "h8:" \o Flat(body)

\* forum.NewPostFilename, time.Now() reading `ms`.
NewPostFilename(body, ms) == <<UnixMilli(ms), "_", Digest8(body), ".md">>

\* forum.TombstoneFilename
TombstoneFilename(name) == name \o <<".tomb">>

\* strings.HasSuffix(name, ".md")
HasSuffixMd(name) == name # <<>> /\ name[Len(name)] = ".md"

\* Where a file name stands among the names os.ReadDir sorts: by its
\* leading digits (letters come after digits), then by its digest, then by
\* its length.
NameRank(name) ==
    LET stem == IF name[1] = "0000_root" THEN 0
                ELSE IF name[1] = "README" THEN MaxClock + 2
                ELSE IF name[1] = "drafts" THEN MaxClock + 3
                ELSE 1 + (CHOOSE ms \in 0..MaxClock : UnixMilli(ms) = name[1])
        hash == IF Len(name) < 3 \/ name[2] # "_" THEN 0
                ELSE CHOOSE i \in 1..Len(ThreadBodies) :
                         Digest8(ThreadBodies[i]) = name[3]
    IN  <<stem, hash, Len(name)>>

NameLess(a, b) ==
    LET x == NameRank(a)
        y == NameRank(b)
    IN  \/ x[1] < y[1]
        \/ x[1] = y[1] /\ x[2] < y[2]
        \/ x[1] = y[1] /\ x[2] = y[2] /\ x[3] < y[3]

\* os.ReadDir: the names of a directory in ascending order.
RECURSIVE ReadDir(_)
ReadDir(names) ==
    IF names = {} THEN <<>>
    ELSE LET first == CHOOSE a \in names :
                          \A b \in names \ {a} : NameLess(a, b)
         IN  <<first>> \o ReadDir(names \ {first})

\* (mutant) a comparator that goes by the timestamps alone.
PostLess_TimestampOnly(a, b) == a.Timestamp < b.Timestamp

\* The comparator LoadThread hands to sort.Slice.
PostLess(a, b) ==
    IF a.Filename = RootFilename THEN TRUE
    ELSE IF b.Filename = RootFilename THEN FALSE
    ELSE a.Timestamp < b.Timestamp

\* insertionSortLessFunc: each element in turn moves left past every
\* neighbour it is less than.
RECURSIVE SiftLeft(_, _)
SiftLeft(sorted, p) ==
    IF sorted # <<>> /\ PostLess(p, sorted[Len(sorted)])
    THEN Append(SiftLeft(SubSeq(sorted, 1, Len(sorted) - 1), p),
                sorted[Len(sorted)])
    ELSE Append(sorted, p)

RECURSIVE insertionSort(_)
insertionSort(posts) ==
    IF posts = <<>> THEN <<>>
    ELSE SiftLeft(insertionSort(SubSeq(posts, 1, Len(posts) - 1)),
                  posts[Len(posts)])

\* partitionLessFunc on the whole slice: the pivot goes to the front, the
\* two indices close in from both ends swapping the pairs that stand on the
\* wrong side, and the pivot goes to where they met.
partition(data, pivot) ==
    LET swap(d, x, y) == [d EXCEPT ![x] = d[y], ![y] = d[x]]
        RECURSIVE up(_, _, _)
        up(d, i, j) ==
            IF i <= j /\ PostLess(d[i], d[1]) THEN up(d, i + 1, j) ELSE i
        RECURSIVE down(_, _, _)
        down(d, i, j) ==
            IF i <= j /\ ~PostLess(d[j], d[1]) THEN down(d, i, j - 1) ELSE j
        RECURSIVE close(_, _, _)
        close(d, i, j) ==
            IF i > j THEN [data |-> swap(d, j, 1), mid |-> j]
            ELSE IF PostLess(d[i], d[1]) THEN close(d, up(d, i, j), j)
            ELSE IF ~PostLess(d[j], d[1]) THEN close(d, i, down(d, i, j))
            ELSE close(swap(d, i, j), i + 1, j - 1)
    IN  close(swap(data, 1, pivot), 2, Len(data))

\* pdqsort_func on a slice of 13 elements, the shortest that is not handed
\* to the insertion sort: choosePivot takes the median of the elements at a
\* quarter, a half and three quarters; a slice that looks sorted there and
\* has no descent is left as it is (partialInsertionSort); otherwise it is
\* partitioned, and both sides, of at most 12 elements, are insertion-sorted.
pdqsort(data) ==
    LET n == Len(data)
        order2(x, y) ==
            IF PostLess(data[y], data[x]) THEN <<y, x, 1>> ELSE <<x, y, 0>>
        third(ab, bc) ==
            <<order2(ab[1], bc[1])[2],
              ab[3] + bc[3] + order2(ab[1], bc[1])[3]>>
        second(ab, k) == third(ab, order2(ab[2], k))
        median(i, j, k) == second(order2(i, j), k)
        sides(p) ==
            insertionSort(SubSeq(p.data, 1, p.mid - 1))
            \o <<p.data[p.mid]>>
            \o insertionSort(SubSeq(p.data, p.mid + 1, n))
        round(m) ==
            IF m[2] = 0 /\ \A x \in 2..n : ~PostLess(data[x], data[x - 1])
            THEN data
            ELSE sides(partition(data, m[1]))
    IN  round(median(1 + (n \div 4), 1 + 2 * (n \div 4), 1 + 3 * (n \div 4)))

\* sort.Slice with the comparator of LoadThread.  (Slices of more than 13
\* elements, which take further rounds of pdqsort, are not modelled.)
SortSlice(posts) ==
    IF Len(posts) <= 12 THEN insertionSort(posts) ELSE pdqsort(posts)

\* (mutant) a loop that loads tombstoned posts too.
RECURSIVE LoadPosts_KeepTombstoned(_, _, _)
LoadPosts_KeepTombstoned(names, files, keys) ==
    LET load(name, parsed) ==
            IF parsed.err # ""
            THEN [ZeroPost EXCEPT !.Filename = name,
                                  !.SigStatus = SigInvalid,
                                  !.SigError = parsed.err]
            ELSE VerifySignature(parsed.post, keys)
    IN  IF names = <<>> THEN <<>>
        ELSE IF files[names[1]].IsDir \/ ~HasSuffixMd(names[1])
        THEN LoadPosts_KeepTombstoned(Tail(names), files, keys)
        ELSE <<load(names[1], ParsePost(names[1], files[names[1]].data))>>
             \o LoadPosts_KeepTombstoned(Tail(names), files, keys)

\* (mutant) a loop that ends at the first file ParsePost rejects.
RECURSIVE LoadPosts_StopAtError(_, _, _)
LoadPosts_StopAtError(names, files, keys) ==
    LET load(name, parsed) ==
            IF parsed.err # "" THEN <<>>
            ELSE <<VerifySignature(parsed.post, keys)>>
                 \o LoadPosts_StopAtError(Tail(names), files, keys)
    IN  IF names = <<>> THEN <<>>
        ELSE IF \/ files[names[1]].IsDir
                \/ ~HasSuffixMd(names[1])
                \/ TombstoneFilename(names[1]) \in DOMAIN files
        THEN LoadPosts_StopAtError(Tail(names), files, keys)
        ELSE load(names[1], ParsePost(names[1], files[names[1]].data))

\* The loop of LoadThread over the directory entries.
RECURSIVE LoadPosts(_, _, _)
LoadPosts(names, files, keys) ==
    LET load(name, parsed) ==
            IF parsed.err # ""
            THEN [ZeroPost EXCEPT !.Filename = name,
                                  !.SigStatus = SigInvalid,
                                  !.SigError = parsed.err]
            ELSE VerifySignature(parsed.post, keys)
    IN  IF names = <<>> THEN <<>>
        ELSE IF \/ files[names[1]].IsDir
                \/ ~HasSuffixMd(names[1])
                \/ TombstoneFilename(names[1]) \in DOMAIN files
        THEN LoadPosts(Tail(names), files, keys)
        ELSE <<load(names[1], ParsePost(names[1], files[names[1]].data))>>
             \o LoadPosts(Tail(names), files, keys)

\* (mutant) a LoadThread whose Root is the first post, whatever its name.
LoadThread_RootIsFirst(files, keys) ==
    LET sorted == SortSlice(LoadPosts(ReadDir(DOMAIN files), files, keys))
    IN  [Posts |-> sorted,
         Root |-> IF sorted # <<>> THEN <<sorted[1]>> ELSE <<>>]

\* forum.LoadThread on a readable directory.  Root is the empty sequence
\* for nil, else the one post it points to.
LoadThread(files, keys) ==
    LET sorted == SortSlice(LoadPosts(ReadDir(DOMAIN files), files, keys))
    IN  [Posts |-> sorted,
         Root |-> IF sorted # <<>> /\ sorted[1].Filename = RootFilename
                  THEN <<sorted[1]>> ELSE <<>>]

(***************************************************************************)
(* Specification SpecPost: Format, ParsePost and VerifySignature applied   *)
(* to drawn posts and key files.                                           *)
(***************************************************************************)

\* The identities that write posts.
Authors == {id \in Identities : id.Username # Admin}

\* The bodies of the posts drawn: empty, one line, a trailing newline, a
\* leading blank line, an embedded blank line, a line that is a fence.
PostBodies ==
    { <<>>, <<"x">>, <<"x", NL>>, <<NL, "x">>, <<"x", NL, NL, "x">>,
      <<"+", "+", "+", NL, "x">> }

\* What is done to a signed post before it is formatted or verified.
Altered(p) ==
    {p}
    \cup {[p EXCEPT !.Body = <<"x", "x">>]}
    \cup {[p EXCEPT !.Signature = sig] :
             sig \in {<<ForgedSig>>, <<NotBase64>>, <<>>}}
    \cup {[p EXCEPT !.Author = a] :
             a \in {<<"carol">>, <<"b", "\"", "\\", NL>>, <<"b", BEL>>}}
    \cup {[p EXCEPT !.TimestampRaw = <<"x">>]}
    \cup {[p EXCEPT !.PubKey = <<"\"">>]}
    \cup {[p EXCEPT !.Parent = <<"\\", "n">>]}

Posts ==
    UNION {Altered(SignPost(id, parentHash, body, 0)) :
              id \in Authors,
              parentHash \in {<<>>, PostHash(<<"x">>)},
              body \in PostBodies}

\* What ReadFile may give for keys/bob.pub: no file, a key, another key,
\* a key between blanks, no base64, base64 of the wrong length, a read error.
KeyFiles ==
    { NoKeyFile, KeyFile("KB"), KeyFile("KX"),
      [err |-> "", data |-> <<" ", "KB", NL, NL>>],
      [err |-> "", data |-> <<NotBase64Key, NL>>],
      [err |-> "", data |-> <<ShortKey, NL>>],
      [err |-> "EACCES", data |-> <<>>] }

\* The keys directories in which keys/bob.pub is one of `files`.
KeyDirs(files) ==
    {[u \in Usernames |->
         IF u = "bob" THEN f
         ELSE IF u = Admin THEN KeyFile("KA")
         ELSE NoKeyFile] : f \in files}

InitPost ==
    /\ hist = [x \in Repos |-> <<InitCommit>>]
    /\ last = Outcome("init", "srv", "", 0, "")
    /\ input \in Posts
    /\ output = [op |-> "none"]
    /\ dir = NoInput
    /\ keysDir \in KeyDirs(KeyFiles)
    /\ now = 0

\* Format the post drawn and parse the file.
FormatParse ==
    /\ output.op = "none"
    /\ output' = [op |-> "parse",
                  parsed |-> ParsePost(RootFilename, Format(input))]
    /\ UNCHANGED <<hist, last, input, dir, keysDir, now>>

\* Verify the post drawn against the keys directory.
VerifyPost ==
    /\ output.op = "none"
    /\ output' = [op |-> "verify", post |-> VerifySignature(input, keysDir)]
    /\ UNCHANGED <<hist, last, input, dir, keysDir, now>>

NextPost == FormatParse \/ VerifyPost

SpecPost == InitPost /\ [][NextPost]_vars

\* C6: ParsePost(Format(p)) succeeds and gives back author, pubkey, raw
\* timestamp, parent, signature and body of every post p.
C6_FormatParseRoundTrip ==
    output.op = "parse" =>
        /\ output.parsed.err = ""
        /\ output.parsed.post.Author = input.Author
        /\ output.parsed.post.PubKey = input.PubKey
        /\ output.parsed.post.TimestampRaw = input.TimestampRaw
        /\ output.parsed.post.Parent = input.Parent
        /\ output.parsed.post.Signature = input.Signature
        /\ output.parsed.post.Body = input.Body

\* The signature of p is the one made with the private half of the key
\* that `file` holds, over the canonical form of p's fields and body.
VerifiesUnder(p, file) ==
    /\ file.err = ""
    /\ \E kp \in KeyPairs :
          /\ TrimSpace(file.data) = <<kp.PublicKey>>
          /\ p.Signature =
                Sign(kp.PrivateKey,
                     Lines(Ascending(PostKeys), PostFields(p))
                     \o <<NL>> \o p.Body)

\* C8: VerifySignature ends in one of three statuses: missing exactly when
\* the author has no key file, valid exactly when the signature verifies
\* under the key stored for the author, invalid in every other case.
C8_SigStatus ==
    output.op = "verify" =>
        LET file == ReadKeyFile(keysDir, input.Author)
            st   == output.post.SigStatus
        IN  /\ st \in {SigMissing, SigInvalid, SigValid}
            /\ st = SigMissing <=> file.err = "ENOENT"
            /\ st = SigValid <=> VerifiesUnder(input, file)
            /\ output.post = [input EXCEPT !.SigStatus = st,
                                           !.SigError = output.post.SigError]

\* C8 witness: a post signed with another keypair of the same username was
\* found invalid against the stored key.
C8_Witness ==
    /\ output.op = "verify"
    /\ output.post.SigStatus = SigInvalid
    /\ input.Author = <<"bob">>
    /\ input.Signature \notin {<<ForgedSig>>, <<NotBase64>>, <<>>}
    /\ input.Body # <<"x", "x">>
    /\ keysDir["bob"] = KeyFile("KB")
    /\ input.PubKey = Fingerprint([Username |-> "bob", PublicKey |-> "KX"])

(***************************************************************************)
(* Specification SpecThread: posts are signed and written into a thread    *)
(* directory, which LoadThread reads.                                      *)
(***************************************************************************)

\* signedPost: sign, format and write dir/filename; time.Now reads the
\* clock where it stands or one millisecond on.
signedPost(filename, id, parentHash, body, ms) ==
    /\ ms \in now..(IF now < MaxClock THEN now + 1 ELSE now)
    /\ now' = ms
    /\ dir' = (filename :> [IsDir |-> FALSE,
                             data |-> Format(SignPost(id, parentHash, body, ms))])
               @@ dir
    /\ input' = Append(input, [filename |-> filename, id |-> id, body |-> body])
    /\ output' = [op |-> "none"]
    /\ UNCHANGED <<hist, last, keysDir>>

\* The root post of the thread is written.
WriteRoot(id, body) ==
    /\ RootFilename \notin DOMAIN dir
    /\ \E ms \in 0..MaxClock : signedPost(RootFilename, id, <<>>, body, ms)

\* A reply to the root post is written.
WriteReply(id, body) ==
    /\ RootFilename \in DOMAIN dir
    /\ Len(input) <= MaxReplies
    /\ \E ms \in 0..MaxClock :
          signedPost(NewPostFilename(body, ms), id,
                     PostHash(dir[RootFilename].data), body, ms)

\* GET /api/threads/{cat}/{thread}
handleThread ==
    /\ output' = [op |-> "load", thread |-> LoadThread(dir, keysDir)]
    /\ UNCHANGED <<hist, last, input, dir, keysDir, now>>

InitThread ==
    /\ hist = [x \in Repos |-> <<InitCommit>>]
    /\ last = Outcome("init", "srv", "", 0, "")
    /\ input = NoInput
    /\ output = [op |-> "none"]
    /\ dir = <<>>
    /\ keysDir \in KeyDirs({KeyFile("KB"), NoKeyFile})
    /\ now = 0

NextThread ==
    \/ \E id \in Authors, i \in 1..Len(ThreadBodies) : WriteRoot(id, ThreadBodies[i])
    \/ \E id \in Authors, i \in 1..Len(ThreadBodies) : WriteReply(id, ThreadBodies[i])
    \/ handleThread

SpecThread == InitThread /\ [][NextThread]_vars

\* The public key of identity id is stored in keys/<username>.pub.
KeyStored(id) == keysDir[id.Username] = KeyFile(id.PublicKey)

\* C7: a root and a reply to it, written by identities whose keys are
\* stored, load as two posts, root then reply, both valid.
C7_RootReplyValid ==
    (/\ output.op = "load"
     /\ Len(input) = 2
     /\ \A i \in 1..2 : KeyStored(input[i].id))
    => LET loaded == output.thread.Posts
       IN  /\ Len(loaded) = 2
           /\ loaded[1].Filename = RootFilename
           /\ loaded[2].Filename = input[2].filename
           /\ \A i \in 1..2 : loaded[i].SigStatus = SigValid

(***************************************************************************)
(* Specification SpecLoad: a thread directory fills with the files that    *)
(* other writers committed and with the tombstones the admin handler       *)
(* writes, and LoadThread reads it.  Of the working tree only the thread   *)
(* directory is kept here; commits are the subject of SpecRepo.            *)
(***************************************************************************)

\* forum.SignTombstone: a post signed by `id` whose parent is the hash of
\* the deleted file and whose body is empty.
SignTombstone(id, content, ms) == SignPost(id, PostHash(content), <<>>, ms)

\* Files ParsePost rejects: no opening fence, no closing fence, a line that
\* is no TOML, a timestamp that is no RFC 3339 time.
BadFiles ==
    { <<"x">>,
      Fence \o <<NL, "x">>,
      Fence \o <<NL, "x", NL>> \o Fence \o <<NL>>,
      Format([SignPost([Username |-> "bob", PublicKey |-> "KB"],
                       <<>>, <<"x">>, 0) EXCEPT !.TimestampRaw = <<"x">>]) }

\* What another writer may have committed into the thread directory: under
\* the root name and two reply names, a post that bob signed in one second
\* with the key on file and one he signed in that second with another key,
\* a post that carol signed a second later, or a malformed file; a
\* tombstone that bob signed; a file that is no post; a subdirectory.
PulledEntries ==
    LET file(data) == [IsDir |-> FALSE, data |-> data]
        names == {RootFilename}
                 \cup {NewPostFilename(ThreadBodies[i], 0) : i \in 1..2}
        posts == {Format(SignPost(s.id, <<>>, <<"x">>, s.ms)) :
                     s \in {[id |-> [Username |-> "bob", PublicKey |-> "KB"],
                              ms |-> 0],
                            [id |-> [Username |-> "bob", PublicKey |-> "KX"],
                              ms |-> 1],
                            [id |-> [Username |-> "carol", PublicKey |-> "KC"],
                              ms |-> MaxClock]}}
        tombs == {Format(SignTombstone([Username |-> "bob", PublicKey |-> "KB"],
                                       <<"x">>, 0))}
    IN  {[name |-> n, entry |-> file(d)] : n \in names, d \in posts \cup BadFiles}
        \cup {[name |-> TombstoneFilename(n), entry |-> file(d)] :
                 n \in names, d \in tombs}
        \cup {[name |-> <<"README", ".txt">>, entry |-> file(<<"x">>)],
              [name |-> <<"drafts", ".md">>,
               entry |-> [IsDir |-> TRUE, data |-> <<>>]]}

\* Repo.Pull brought one more entry into the thread directory.
PulledFile(name, entry) ==
    /\ name \notin DOMAIN dir
    /\ Cardinality(DOMAIN dir) < MaxFiles
    /\ dir' = (name :> entry) @@ dir
    /\ output' = [op |-> "none"]
    /\ UNCHANGED <<hist, last, input, keysDir, now>>

\* POST /api/admin/delete on the server of replica r; time.Now reads the
\* clock where it stands.
handleAdminDelete(r, filename) ==
    /\ UNCHANGED <<hist, input, keysDir>>
    /\ output' = [op |-> "none"]
    /\ IF filename = <<>>
       THEN /\ last' = Outcome("delete", r, "", 400, "")
            /\ UNCHANGED <<dir, now>>
       ELSE IF requireAdmin(r) # 200
       THEN /\ last' = Outcome("delete", r, "", requireAdmin(r), "")
            /\ UNCHANGED <<dir, now>>
       ELSE IF filename \notin DOMAIN dir \/ dir[filename].IsDir
       THEN /\ last' = Outcome("delete", r, "", 404, "post not found")
            /\ UNCHANGED <<dir, now>>
       ELSE /\ \/ TombstoneFilename(filename) \in DOMAIN dir
               \/ Cardinality(DOMAIN dir) < MaxFiles
            /\ dir' = (TombstoneFilename(filename) :>
                          [IsDir |-> FALSE,
                           data |-> Format(SignTombstone(
                               identity(r), dir[filename].data, now))])
                      @@ dir
            /\ UNCHANGED now
            /\ last' = Outcome("delete", r, "", 200, "")

InitLoad ==
    /\ hist = [x \in Repos |-> <<InitCommit>>]
    /\ last = Outcome("init", "srv", "", 0, "")
    /\ input = NoInput
    /\ output = [op |-> "none"]
    /\ dir = <<>>
    /\ keysDir \in KeyDirs({KeyFile("KB")})
    /\ now = 0

NextLoad ==
    \/ \E e \in PulledEntries : PulledFile(e.name, e.entry)
    \/ \E r \in Replicas, f \in DOMAIN dir : handleAdminDelete(r, f)
    \/ handleThread

SpecLoad == InitLoad /\ [][NextLoad]_vars

\* The regular .md files of the thread directory, and those of them that
\* have no tombstone beside them.
PostFiles == {n \in DOMAIN dir : ~dir[n].IsDir /\ HasSuffixMd(n)}

Untombstoned == {n \in PostFiles : TombstoneFilename(n) \notin DOMAIN dir}

\* The file names of the posts LoadThread returned.
Loaded ==
    {output.thread.Posts[i].Filename : i \in 1..Len(output.thread.Posts)}

\* The parsed timestamp of file n.
TimeOf(n) == ParsePost(n, dir[n].data).post.Timestamp

\* C11: when the thread directory holds a root file and N reply files that
\* parse, the replies with distinct timestamps, LoadThread returns N+1
\* posts, the root first whatever its timestamp, then the replies in
\* strictly ascending order of timestamp.
C11_RootFirstAscending ==
    (/\ output.op = "load"
     /\ RootFilename \in Untombstoned
     /\ \A n \in Untombstoned : ParsePost(n, dir[n].data).err = ""
     /\ \A n, m \in Untombstoned \ {RootFilename} :
           n # m => TimeOf(n) # TimeOf(m))
    => LET loaded == output.thread.Posts
       IN  /\ Len(loaded) = Cardinality(Untombstoned)
           /\ loaded[1].Filename = RootFilename
           /\ \A i \in 2..(Len(loaded) - 1) :
                 loaded[i].Timestamp < loaded[i + 1].Timestamp
           /\ Loaded = Untombstoned

\* C11 witness: a root signed in a later second than one of its two replies
\* was loaded first, and the reply that the directory lists first came last.
C11_Witness ==
    /\ output.op = "load"
    /\ Len(output.thread.Posts) = 3
    /\ \A i \in 1..3 : output.thread.Posts[i].SigError \notin
                          {ParsePost(RootFilename, d).err : d \in BadFiles}
    /\ output.thread.Posts[1].Filename = RootFilename
    /\ output.thread.Posts[1].Timestamp > output.thread.Posts[2].Timestamp
    /\ output.thread.Posts[2].Timestamp < output.thread.Posts[3].Timestamp
    /\ output.thread.Posts[3].Filename = NewPostFilename(ThreadBodies[1], 0)

\* C13: loading a thread directory without 0000_root.md gives a thread with
\* no Root and every reply; and in every result Root is set exactly when the
\* first post is the file 0000_root.md, and then it is that post.
C13_RootOnlyIfFirst ==
    output.op = "load" =>
        LET t == output.thread
        IN  /\ RootFilename \notin DOMAIN dir =>
                  t.Root = <<>> /\ Loaded = Untombstoned
            /\ t.Root # <<>> <=>
                  (t.Posts # <<>> /\ t.Posts[1].Filename = RootFilename)
            /\ t.Root # <<>> => t.Root = <<t.Posts[1]>>

\* C13 witness: a directory with two replies and no root was loaded.
C13_Witness ==
    /\ output.op = "load"
    /\ RootFilename \notin DOMAIN dir
    /\ output.thread.Root = <<>>
    /\ Len(output.thread.Posts) = 2

SignedByAdmin(data) ==
    LET signed(parsed) ==
            /\ parsed.err = ""
            /\ Verify(ReadMeta(hist["srv"]).AdminPubkey,
                      CanonicalForm(FieldOrder, PostFields(parsed.post),
                                    parsed.post.Body),
                      parsed.post.Signature) = ""
    IN  signed(ParsePost(<<>>, data))

\* C15: a post file is left out of the thread only if its tombstone was
\* signed with the admin key of GITORUM.toml.
C15_OnlyAdminTombstones ==
    output.op = "load" =>
        \A n \in PostFiles \ Loaded :
            /\ TombstoneFilename(n) \in DOMAIN dir
            /\ SignedByAdmin(dir[TombstoneFilename(n)].data)

\* C16: every untombstoned .md file gives exactly one post of the result:
\* when ParsePost rejects it, a placeholder with its file name, SigStatus
\* invalid and the parse error; otherwise the parsed post with the status
\* VerifySignature gives it.  No file makes the load drop another.
C16_PlaceholderKeepsOthers ==
    output.op = "load" =>
        LET loaded == output.thread.Posts
            expected(n, parsed) ==
                IF parsed.err # ""
                THEN [ZeroPost EXCEPT !.Filename = n,
                                      !.SigStatus = SigInvalid,
                                      !.SigError = parsed.err]
                ELSE VerifySignature(parsed.post, keysDir)
        IN  /\ Len(loaded) = Cardinality(Untombstoned)
            /\ \A n \in Untombstoned :
                  \E i \in 1..Len(loaded) :
                      loaded[i] = expected(n, ParsePost(n, dir[n].data))

\* C16 witness: a file with an unparseable timestamp was loaded as a
\* placeholder between a post found valid and a post whose author has no key.
C16_Witness ==
    /\ output.op = "load"
    /\ Len(output.thread.Posts) = 3
    /\ \E i, j, k \in 1..3 :
          /\ output.thread.Posts[i].SigError = "parse timestamp"
          /\ output.thread.Posts[i].SigStatus = SigInvalid
          /\ output.thread.Posts[j].SigStatus = SigValid
          /\ output.thread.Posts[k].SigStatus = SigMissing

(***************************************************************************)
(* Specification SpecSort: the sort step of LoadThread applied to the      *)
(* posts of a directory of thirteen files.                                 *)
(***************************************************************************)

\* What the loop of LoadThread leaves in t.Posts for thirteen files, each
\* either rejected by ParsePost (a placeholder, with the zero time) or a
\* post of one and the same second.
SortInputs ==
    {[i \in 1..13 |-> [ZeroPost EXCEPT !.Filename = <<ToString(i), ".md">>,
                                       !.Timestamp = t[i]]] :
        t \in [1..13 -> {0, 1}]}

\* The sort.Slice call of LoadThread.
sortPosts ==
    /\ output.op = "none"
    /\ output' = [op |-> "sort", posts |-> SortSlice(input)]
    /\ UNCHANGED <<hist, last, input, dir, keysDir, now>>

InitSort ==
    /\ hist = [x \in Repos |-> <<InitCommit>>]
    /\ last = Outcome("init", "srv", "", 0, "")
    /\ input \in SortInputs
    /\ output = [op |-> "none"]
    /\ dir = NoInput
    /\ keysDir = NoInput
    /\ now = 0

NextSort == sortPosts

SpecSort == InitSort /\ [][NextSort]_vars

\* C12: two posts with equal timestamps stand in the result in the order the
\* directory listing had them in, for any number of posts.
C12_StableOrder ==
    output.op = "sort" =>
        \A i, j \in 1..Len(input) :
            (i < j /\ input[i].Timestamp = input[j].Timestamp) =>
                \E x, y \in 1..Len(output.posts) :
                    /\ x < y
                    /\ output.posts[x] = input[i]
                    /\ output.posts[y] = input[j]

(***************************************************************************)
(* Specification SpecCategory: a category directory fills with what        *)
(* writers committed into it, and LoadCategory reads it.  The names of the *)
(* category directory are character strings; a subdirectory holds in its   *)
(* field `files` a thread directory as above.                              *)
(***************************************************************************)

MetaFilename == <<"M", "E", "T", "A", ".", "t", "o", "m", "l">>

\* (mutant) every subdirectory is a thread, with a root post or without.
LoadCategory_AnySubdir(files) ==
    LET RECURSIVE readDir(_)
        readDir(names) ==
            IF names = {} THEN <<>>
            ELSE LET first == CHOOSE a \in names :
                                  \A b \in names \ {a} : StrLess(a, b)
                 IN  <<first>> \o readDir(names \ {first})
        RECURSIVE threads(_)
        threads(entries) ==
            IF entries = <<>> THEN <<>>
            ELSE IF ~files[entries[1]].IsDir THEN threads(Tail(entries))
            ELSE <<entries[1]>> \o threads(Tail(entries))
    IN  IF MetaFilename \notin DOMAIN files \/ files[MetaFilename].IsDir
        THEN [err |-> "read META.toml", ThreadSlugs |-> <<>>]
        ELSE IF TomlDecode(Split(files[MetaFilename].data), <<>>).err # ""
        THEN [err |-> "read META.toml", ThreadSlugs |-> <<>>]
        ELSE [err |-> "", ThreadSlugs |-> threads(readDir(DOMAIN files))]

\* forum.LoadCategory: toml.DecodeFile on META.toml, os.ReadDir (names in
\* ascending order), the subdirectories in which os.Stat finds the root
\* file name, sort.Strings.
LoadCategory(files) ==
    LET RECURSIVE readDir(_)
        readDir(names) ==
            IF names = {} THEN <<>>
            ELSE LET first == CHOOSE a \in names :
                                  \A b \in names \ {a} : StrLess(a, b)
                 IN  <<first>> \o readDir(names \ {first})
        RECURSIVE threads(_)
        threads(entries) ==
            IF entries = <<>> THEN <<>>
            ELSE IF ~files[entries[1]].IsDir THEN threads(Tail(entries))
            ELSE IF RootFilename \in DOMAIN files[entries[1]].files
            THEN <<entries[1]>> \o threads(Tail(entries))
            ELSE threads(Tail(entries))
        RECURSIVE insert(_, _)
        insert(sorted, x) ==
            IF sorted # <<>> /\ StrLess(x, sorted[Len(sorted)])
            THEN Append(insert(SubSeq(sorted, 1, Len(sorted) - 1), x),
                        sorted[Len(sorted)])
            ELSE Append(sorted, x)
        RECURSIVE sortStrings(_)
        sortStrings(slugs) ==
            IF slugs = <<>> THEN <<>>
            ELSE insert(sortStrings(SubSeq(slugs, 1, Len(slugs) - 1)),
                        slugs[Len(slugs)])
    IN  IF MetaFilename \notin DOMAIN files \/ files[MetaFilename].IsDir
        THEN [err |-> "read META.toml", ThreadSlugs |-> <<>>]
        ELSE IF TomlDecode(Split(files[MetaFilename].data), <<>>).err # ""
        THEN [err |-> "read META.toml", ThreadSlugs |-> <<>>]
        ELSE [err |-> "",
              ThreadSlugs |-> sortStrings(threads(readDir(DOMAIN files)))]

\* What writers may have committed into the category directory: META.toml
\* as CreateCategory writes it, as a file that is no TOML, or as a
\* directory; under three names a thread directory with a root post, one
\* whose root name is a directory, one with a reply only, an empty one, or
\* a plain file.
CategoryEntries ==
    LET file(data) == [IsDir |-> FALSE, data |-> data]
        subdir(files) == [IsDir |-> TRUE, data |-> <<>>, files |-> files]
        post == file(Format(SignPost([Username |-> "bob", PublicKey |-> "KB"],
                                     <<>>, <<"x">>, 0)))
        slugs == {<<"b">>, <<"a", "b">>, <<"Z">>}
        kinds == {subdir(RootFilename :> post),
                  subdir(RootFilename :> subdir(<<>>)),
                  subdir(NewPostFilename(ThreadBodies[1], 0) :> post),
                  subdir(<<>>),
                  file(<<"x">>)}
    IN  {[name |-> MetaFilename, entry |-> e] :
            e \in {file(<<"n", "a", "m", "e", " ", "=", " ", "\"", "a", "\"", NL>>),
                   file(<<"x">>),
                   subdir(<<>>)}}
        \cup {[name |-> n, entry |-> e] : n \in slugs, e \in kinds}

\* One call of forum.LoadCategory on the category directory.
loadCategory ==
    /\ output' = [op |-> "category", category |-> LoadCategory(dir)]
    /\ UNCHANGED <<hist, last, input, dir, keysDir, now>>

InitCategory ==
    /\ hist = [x \in Repos |-> <<InitCommit>>]
    /\ last = Outcome("init", "srv", "", 0, "")
    /\ input = NoInput
    /\ output = [op |-> "none"]
    /\ dir = <<>>
    /\ keysDir = NoInput
    /\ now = 0

NextCategory ==
    \/ \E e \in CategoryEntries : PulledFile(e.name, e.entry)
    \/ loadCategory

SpecCategory == InitCategory /\ [][NextCategory]_vars

\* C17: LoadCategory returns an error when the directory has no META.toml
\* that can be read as metadata; otherwise it returns without error exactly
\* the names of the subdirectories that contain 0000_root.md, in ascending
\* order, which is the empty list when there is none.
C17_ErrorOrSortedThreads ==
    output.op = "category" =>
        LET c == output.category
            hasMeta == /\ MetaFilename \in DOMAIN dir
                       /\ ~dir[MetaFilename].IsDir
                       /\ dir[MetaFilename].data # <<"x">>
            valid == {n \in DOMAIN dir :
                         dir[n].IsDir /\ RootFilename \in DOMAIN dir[n].files}
        IN  /\ c.err # "" <=> ~hasMeta
            /\ hasMeta =>
                  /\ Range(c.ThreadSlugs) = valid
                  /\ Len(c.ThreadSlugs) = Cardinality(valid)
                  /\ \A i \in 1..(Len(c.ThreadSlugs) - 1) :
                        StrLess(c.ThreadSlugs[i], c.ThreadSlugs[i + 1])

\* The two threads of a category are listed, the upper-case name first.
C17_Witness ==
    /\ output.op = "category"
    /\ output.category.err = ""
    /\ output.category.ThreadSlugs = <<<<"Z">>, <<"a", "b">>>>

(***************************************************************************)
(* Specification SpecRepo: one working clone, step by step.  Here          *)
(*   hist["srv"]   is the commit chain of the clone (<<>> before Init),    *)
(*   hist[Origin]  the chain of the bare remote,                           *)
(*   dir           the working tree, path -> content,                      *)
(*   input         the .git directory: the index, whether a remote named   *)
(*                 origin is configured, and the chain the remote-tracking *)
(*                 reference of the branch points to (<<>>: no reference), *)
(* and a tree of a commit is a function path -> content.  An operation may *)
(* fail on a storage error after it wrote its files (wt.Add failed) or     *)
(* after it staged them (wt.Commit failed).                                *)
(***************************************************************************)

\* The tree HEAD points to; nothing before the first commit.
HeadTree(h) == IF h = <<>> THEN <<>> ELSE HeadCommit(h).tree

\* wt.Status().IsClean(): nothing staged, modified, deleted or untracked.
IsClean(wt, git, h) == wt = git.index /\ git.index = HeadTree(h)

\* The files are on disk; then Repo.commitFiles (and the same steps inside
\* CommitPost): wt.Add of each path written, then wt.Commit as `id`, which
\* commits the index as it stands and refuses a commit that changes nothing.
\* `stop` is how far the operation gets: "write" (wt.Add failed), "add"
\* (wt.Commit failed), "done".  The model stops at MaxCommits commits after
\* the first.
stageAndCommit(op, id, msg, written, stop) ==
    LET wt  == written @@ dir
        idx == IF stop = "write" THEN input.index ELSE written @@ input.index
        ok  == stop = "done" /\ idx # HeadTree(hist["srv"])
    IN  /\ Len(hist["srv"]) <= MaxRepoCommits
        /\ dir' = wt
        /\ input' = [input EXCEPT !.index = idx]
        /\ hist' = IF ok
                   THEN [hist EXCEPT !["srv"] =
                            Append(@, Commit(id, "srv", Len(@) + 1, msg, idx))]
                   ELSE hist
        /\ last' = [op |-> op, by |-> id.Username, wrote |-> DOMAIN written,
                    err |-> ~ok, n |-> Len(hist["srv"])]
        /\ output' = [op |-> "none"]
        /\ UNCHANGED <<keysDir, now>>

\* repo.Init on a directory that holds no repository.  (An Init that fails
\* hands out no Repo, so no operation follows it.)
RepoInit(meta, id, stop) ==
    /\ hist["srv"] = <<>>
    /\ input.index = <<>>
    /\ stageAndCommit("Init", id, "init: initialize forum repository",
                      ("GITORUM.toml" :> meta)
                      @@ ("keys/" \o id.Username \o ".pub" :> id.PublicKey),
                      stop)

\* Repo.CommitPost
CommitPost(id, relPath, content, stop) ==
    /\ hist["srv"] # <<>>
    /\ stageAndCommit("CommitPost", id, "post: add " \o relPath,
                      relPath :> content, stop)

\* Repo.CreateCategory
CreateCategory(id, slug, name, stop) ==
    /\ hist["srv"] # <<>>
    /\ stageAndCommit("CreateCategory", id, "category: add " \o slug,
                      (slug \o "/META.toml") :> name, stop)

\* Repo.UpdateMeta on the clone
RepoUpdateMeta(id, meta, stop) ==
    /\ hist["srv"] # <<>>
    /\ stageAndCommit("UpdateMeta", id, "config: update forum metadata",
                      "GITORUM.toml" :> meta, stop)

\* Repo.WritePublicKey on the clone
RepoWritePublicKey(id, username, pubkeyB64, stop) ==
    /\ hist["srv"] # <<>>
    /\ stageAndCommit("WritePublicKey", id,
                      "keys: add public key for " \o username,
                      ("keys/" \o username \o ".pub") :> pubkeyB64, stop)

\* Repo.AddRemote("origin", url of the bare remote)
AddRemote ==
    /\ hist["srv"] # <<>>
    /\ ~input.origin
    /\ input' = [input EXCEPT !.origin = TRUE]
    /\ last' = [op |-> "AddRemote", by |-> "", wrote |-> {}, err |-> FALSE,
                n |-> Len(hist["srv"])]
    /\ output' = [op |-> "none"]
    /\ UNCHANGED <<hist, dir, keysDir, now>>

\* Another writer clones the bare remote, commits one file and pushes.
OtherWriterPush(content) ==
    /\ hist[Origin] # <<>>
    /\ Len(hist[Origin]) <= MaxRepoCommits
    /\ LET tree == ("general/bobs-post/0000_root.md" :> content)
                   @@ HeadTree(hist[Origin])
       IN  /\ tree # HeadTree(hist[Origin])
           /\ hist' = [hist EXCEPT ![Origin] =
                          Append(@, Commit(identity("cli"), "cli", Len(@) + 1,
                                           "post: add bobs-post", tree))]
    /\ last' = [op |-> "OtherWriterPush", by |-> "bob", wrote |-> {},
                err |-> FALSE, n |-> Len(hist["srv"])]
    /\ output' = [op |-> "none"]
    /\ UNCHANGED <<input, dir, keysDir, now>>

\* wt.PullContext of go-git: fetch origin (which moves the remote-tracking
\* reference), nothing more when nothing was fetched and HEAD holds what
\* the reference points to, an error unless the reference is a fast-forward
\* of HEAD, then HEAD is moved and the index and the working tree are reset
\* to it, which go-git refuses when a tracked file has unstaged changes.
\* Untracked files are removed by the reset or kept (`removes`).
PullContext(git, wt, h, o, removes) ==
    LET same(err) == [err |-> err, h |-> h, git |-> git, wt |-> wt]
        fetched == [git EXCEPT !.tracking = o]
        unstaged == \E p \in DOMAIN git.index :
                        p \notin DOMAIN wt \/ wt[p] # git.index[p]
    IN  IF o = <<>> THEN same("remote repository is empty")
        ELSE IF git.tracking = o /\ IsPrefix(o, h)
        THEN same("already up-to-date")
        ELSE IF ~IsPrefix(h, o)
        THEN [err |-> "non-fast-forward update", h |-> h, git |-> fetched,
              wt |-> wt]
        ELSE IF unstaged
        THEN [err |-> "worktree contains unstaged changes", h |-> o,
              git |-> fetched, wt |-> wt]
        ELSE [err |-> "", h |-> o,
              git |-> [fetched EXCEPT !.index = HeadTree(o)],
              wt |-> IF removes THEN HeadTree(o) ELSE HeadTree(o) @@ wt]

\* Repo.Pull: nothing to do without a remote named origin; already up to
\* date is no error.
RepoPull(removes) ==
    /\ hist["srv"] # <<>>
    /\ LET r == IF ~input.origin
                THEN [err |-> "", h |-> hist["srv"], git |-> input, wt |-> dir]
                ELSE PullContext(input, dir, hist["srv"], hist[Origin], removes)
       IN  /\ hist' = [hist EXCEPT !["srv"] = r.h]
           /\ input' = r.git
           /\ dir' = r.wt
           /\ last' = [op |-> "Pull", by |-> "", wrote |-> {},
                       err |-> r.err \notin {"", "already up-to-date"},
                       n |-> Len(hist["srv"])]
    /\ output' = [op |-> "none"]
    /\ UNCHANGED <<keysDir, now>>

\* Repo.Push: nothing to do without a remote named origin; PushContext
\* answers already up to date when origin holds HEAD, sends the commits
\* and moves the remote-tracking reference when HEAD is a fast-forward of
\* origin, and is rejected otherwise.
RepoPush ==
    /\ hist["srv"] # <<>>
    /\ LET h == hist["srv"]
           sends == input.origin /\ hist[Origin] # h /\ IsPrefix(hist[Origin], h)
           rejected == input.origin /\ ~IsPrefix(hist[Origin], h)
       IN  /\ hist' = IF sends THEN [hist EXCEPT ![Origin] = h] ELSE hist
           /\ input' = IF sends THEN [input EXCEPT !.tracking = h] ELSE input
           /\ last' = [op |-> "Push", by |-> "", wrote |-> {},
                       err |-> rejected, n |-> Len(h)]
    /\ output' = [op |-> "none"]
    /\ UNCHANGED <<dir, keysDir, now>>

\* (mutant) IsSynced that does not look at the working tree.
IsSynced_HeadOnly(git, wt, h) ==
    IF ~git.origin THEN [synced |-> TRUE, remoteURL |-> ""]
    ELSE IF h = <<>> \/ git.tracking = <<>>
    THEN [synced |-> FALSE, remoteURL |-> "bare"]
    ELSE [synced |-> HeadCommit(h) = HeadCommit(git.tracking),
          remoteURL |-> "bare"]

\* Repo.IsSynced
IsSynced(git, wt, h) ==
    IF ~git.origin THEN [synced |-> TRUE, remoteURL |-> ""]
    ELSE IF ~IsClean(wt, git, h) THEN [synced |-> FALSE, remoteURL |-> "bare"]
    ELSE IF h = <<>> \/ git.tracking = <<>>
    THEN [synced |-> FALSE, remoteURL |-> "bare"]
    ELSE [synced |-> HeadCommit(h) = HeadCommit(git.tracking),
          remoteURL |-> "bare"]

\* One call of Repo.IsSynced.
isSynced ==
    /\ hist["srv"] # <<>>
    /\ output.op = "none"
    /\ output' = [op |-> "synced",
                  result |-> IsSynced(input, dir, hist["srv"])]
    /\ UNCHANGED <<hist, last, input, dir, keysDir, now>>

InitRepo ==
    /\ hist = [x \in Repos |-> <<>>]
    /\ last = [op |-> "none", by |-> "", wrote |-> {}, err |-> FALSE, n |-> 0]
    /\ input = [index |-> <<>>, origin |-> FALSE, tracking |-> <<>>]
    /\ output = [op |-> "none"]
    /\ dir = <<>>
    /\ keysDir = NoInput
    /\ now = 0

NextRepo ==
    \/ RepoInit("m1", identity("srv"), "done")
    \/ \E stop \in {"write", "add", "done"} :
          CommitPost(identity("cli"), "general/t/0000_root.md", "p", stop)
    \/ CreateCategory(identity("srv"), "general", "General", "done")
    \/ \E meta \in {"m1", "m2"}, stop \in {"write", "add", "done"} :
          RepoUpdateMeta(identity("srv"), meta, stop)
    \/ RepoWritePublicKey(identity("srv"), "bob", "KB", "done")
    \/ AddRemote
    \/ OtherWriterPush("b1")
    \/ \E removes \in BOOLEAN : RepoPull(removes)
    \/ RepoPush
    \/ isSynced

SpecRepo == InitRepo /\ [][NextRepo]_vars

\* The paths whose content differs between a tree and its parent's.
ChangeSet(tree, before) ==
    {p \in DOMAIN tree : p \notin DOMAIN before \/ before[p] # tree[p]}
    \cup (DOMAIN before \ DOMAIN tree)

\* C18: every successful Init, CommitPost, CreateCategory, UpdateMeta and
\* WritePublicKey adds exactly one commit, authored as the acting identity,
\* whose change set is exactly the files the operation wrote, also after
\* earlier operations that failed after writing or staging a file.
C18_OneCommitOfWrittenFiles ==
    (/\ last.op \in {"Init", "CommitPost", "CreateCategory", "UpdateMeta",
                     "WritePublicKey"}
     /\ ~last.err)
    => LET h == hist["srv"]
       IN  /\ Len(h) = last.n + 1
           /\ HeadCommit(h).by = last.by
           /\ ChangeSet(HeadTree(h), HeadTree(SubSeq(h, 1, last.n)))
                 = last.wrote

\* C19: IsSynced answers (true, "") without a remote named origin; with one
\* it answers synced exactly when the working tree is clean and HEAD is the
\* commit the remote-tracking reference points to; so it answers false
\* while HEAD is a commit origin does not hold, and true after a successful
\* Push on a clean working tree.
C19_IsSynced ==
    output.op = "synced" =>
        LET s == output.result
            h == hist["srv"]
            clean == dir = input.index /\ input.index = HeadTree(h)
        IN  /\ ~input.origin => s = [synced |-> TRUE, remoteURL |-> ""]
            /\ input.origin =>
                  (s.synced <=> /\ clean
                                /\ input.tracking # <<>>
                                /\ HeadCommit(h) = HeadCommit(input.tracking))
            /\ (input.origin /\ ~IsPrefix(h, hist[Origin])) => ~s.synced
            /\ (input.origin /\ last.op = "Push" /\ ~last.err /\ clean)
                  => s.synced

\* Synced right after a push that sent commits to origin.
C19_Witness ==
    /\ output.op = "synced"
    /\ output.result.synced
    /\ input.origin
    /\ last.op = "Push"
    /\ Len(hist[Origin]) > 1

\* The branch of the clone is behind origin and can be fast-forwarded.
Behind ==
    /\ input.origin
    /\ hist["srv"] # hist[Origin]
    /\ IsPrefix(hist["srv"], hist[Origin])

\* Every file of origin's head is in the working tree after the step.
PulledIn ==
    /\ hist'["srv"] = hist[Origin]
    /\ \A p \in DOMAIN HeadTree(hist[Origin]) :
          p \in DOMAIN dir' /\ dir'[p] = HeadTree(hist[Origin])[p]

\* A step that changes nothing and reports success.
SuccessUnchanged == ~last'.err /\ hist' = hist /\ dir' = dir /\ input' = input

\* C20: Pull and Push succeed without changing anything when no remote
\* named origin is configured or the branch is already up to date; when
\* another writer pushed commits that fast-forward the branch, Pull brings
\* their files into the working tree (and a second Pull right after it is
\* then a Pull on an up-to-date branch).
C20_PullPush ==
    [][/\ ((\/ RepoPush
            \/ \E removes \in BOOLEAN : RepoPull(removes))
           /\ (~input.origin \/ hist["srv"] = hist[Origin]))
          => SuccessUnchanged
       /\ ((\E removes \in BOOLEAN : RepoPull(removes)) /\ Behind)
          => (~last'.err /\ PulledIn)]_vars

(***************************************************************************)
(* Specification SpecSync: the clone and another writer each commit a post *)
(* and synchronise; the sync handler runs whenever it can do something.    *)
(***************************************************************************)

\* GET /api/sync on the server of the clone: Pull, 500 when it fails;
\* then Push, whose error is only logged.  (GITORUM.toml of this clone has
\* auto-approve off, so no request is approved in between.)
RepoHandleSync(removes) ==
    /\ hist["srv"] # <<>>
    /\ LET r == IF ~input.origin
                THEN [err |-> "", h |-> hist["srv"], git |-> input, wt |-> dir]
                ELSE PullContext(input, dir, hist["srv"], hist[Origin], removes)
           pulled == r.err \in {"", "already up-to-date"}
           sends == /\ pulled
                    /\ input.origin
                    /\ hist[Origin] # r.h
                    /\ IsPrefix(hist[Origin], r.h)
       IN  /\ hist' = [hist EXCEPT !["srv"] = r.h,
                                   ![Origin] = IF sends THEN r.h ELSE @]
           /\ input' = IF sends THEN [r.git EXCEPT !.tracking = r.h] ELSE r.git
           /\ dir' = r.wt
           /\ last' = [op |-> "Sync", by |-> "", wrote |-> {},
                       err |-> ~pulled, n |-> Len(hist["srv"])]
    /\ output' = [op |-> "none"]
    /\ UNCHANGED <<keysDir, now>>

NextSync ==
    \/ RepoInit("m1", identity("srv"), "done")
    \/ AddRemote
    \/ CommitPost(identity("srv"), "general/t/0000_root.md", "p", "done")
    \/ CreateCategory(identity("srv"), "general", "General", "done")
    \/ \E content \in {"b1", "b2"} : OtherWriterPush(content)
    \/ RepoPush
    \/ \E removes \in BOOLEAN : RepoHandleSync(removes)

SpecSync ==
    /\ InitRepo
    /\ [][NextSync]_vars
    /\ WF_vars(\E removes \in BOOLEAN : RepoHandleSync(removes))

\* The two posts, and where each is committed.
PostsIn(h) ==
    {"general/t/0000_root.md", "general/bobs-post/0000_root.md"}
    \cap DOMAIN HeadTree(h)

\* C21: when the clone and another writer have each committed a different
\* post on top of the same state of origin, syncing leads to both posts
\* being in the clone and in origin.
C21_SyncReconciles ==
    (/\ input.origin
     /\ PostsIn(hist["srv"]) = {"general/t/0000_root.md"}
     /\ PostsIn(hist[Origin]) = {"general/bobs-post/0000_root.md"})
    ~> (/\ Cardinality(PostsIn(hist["srv"])) = 2
        /\ Cardinality(PostsIn(hist[Origin])) = 2)

\* ---------------------------------------------------------------------
\* Part V.  The HTTP server as concurrent request handlers (SpecServer).
\*
\* net/http runs every request in a goroutine of its own.  `input` holds
\* the position of each goroutine and the request it carries; `output` is
\* the Server struct (mu: the goroutine holding the mutex or "", repo:
\* whether s.repo is set, identity: s.identity, NoIdentity for nil); `dir` is the
\* working tree of RepoPath, hist["srv"] its commits and `last` the latest
\* response written.
\* ---------------------------------------------------------------------

NoIdentity == [Username |-> "", PublicKey |-> ""]

Idle == [at |-> "idle", slug |-> "", body |-> ""]

Respond(p, op, status) == [op |-> op, by |-> p, status |-> status]

\* (mutant) the setup handler without its `s.repo != nil` test.
handleSetup_NoConflictTest(p, username) ==
    \/ /\ input[p].at = "idle"
       /\ output.mu = ""
       /\ output' = [output EXCEPT !.mu = p]
       /\ input' = [input EXCEPT ![p].at = "setup:locked"]
       /\ UNCHANGED <<hist, last, dir, keysDir, now>>
    \/ /\ input[p].at = "setup:locked"
       /\ UNCHANGED <<output, keysDir, now>>
       /\ IF username = ""
          THEN /\ last' = Respond(p, "setup", 400)
               /\ input' = [input EXCEPT ![p].at = "setup:unlock"]
               /\ UNCHANGED <<hist, dir>>
          ELSE IF hist["srv"] # <<>>
          THEN /\ last' = Respond(p, "setup", 500)
               /\ input' = [input EXCEPT ![p].at = "setup:unlock"]
               /\ UNCHANGED <<hist, dir>>
          ELSE LET id == IF output.identity = NoIdentity
                         THEN identity("srv") ELSE output.identity
                   tree == ("GITORUM.toml" :> "m1")
                           @@ ("keys/" \o id.Username \o ".pub" :> id.PublicKey)
               IN  /\ dir' = tree @@ dir
                   /\ hist' = [hist EXCEPT !["srv"] =
                         <<Commit(id, "srv", 1,
                                  "init: initialize forum repository", tree)>>]
                   /\ input' = [input EXCEPT ![p].at = "setup:write"]
                   /\ UNCHANGED last
    \/ /\ input[p].at = "setup:write"
       /\ output' = [output EXCEPT
                       !.identity = IF @ = NoIdentity THEN identity("srv") ELSE @,
                       !.repo = TRUE]
       /\ last' = Respond(p, "setup", 200)
       /\ input' = [input EXCEPT ![p].at = "setup:unlock"]
       /\ UNCHANGED <<hist, dir, keysDir, now>>
    \/ /\ input[p].at = "setup:unlock"
       /\ output' = [output EXCEPT !.mu = ""]
       /\ input' = [input EXCEPT ![p] = Idle]
       /\ UNCHANGED <<hist, last, dir, keysDir, now>>

\* POST /api/setup, one step of goroutine `p` at a time: s.mu.Lock(); the
\* tests and repo.Init; the two assignments to the Server; the deferred
\* s.mu.Unlock().
handleSetup(p, username) ==
    \/ /\ input[p].at = "idle"
       /\ output.mu = ""
       /\ output' = [output EXCEPT !.mu = p]
       /\ input' = [input EXCEPT ![p].at = "setup:locked"]
       /\ UNCHANGED <<hist, last, dir, keysDir, now>>
    \/ /\ input[p].at = "setup:locked"
       /\ UNCHANGED <<output, keysDir, now>>
       /\ IF output.repo
          THEN /\ last' = Respond(p, "setup", 409)
               /\ input' = [input EXCEPT ![p].at = "setup:unlock"]
               /\ UNCHANGED <<hist, dir>>
          ELSE IF username = ""
          THEN /\ last' = Respond(p, "setup", 400)
               /\ input' = [input EXCEPT ![p].at = "setup:unlock"]
               /\ UNCHANGED <<hist, dir>>
          ELSE IF hist["srv"] # <<>>
          THEN /\ last' = Respond(p, "setup", 500)
               /\ input' = [input EXCEPT ![p].at = "setup:unlock"]
               /\ UNCHANGED <<hist, dir>>
          ELSE LET id == IF output.identity = NoIdentity
                         THEN identity("srv") ELSE output.identity
                   tree == ("GITORUM.toml" :> "m1")
                           @@ ("keys/" \o id.Username \o ".pub" :> id.PublicKey)
               IN  /\ dir' = tree @@ dir
                   /\ hist' = [hist EXCEPT !["srv"] =
                         <<Commit(id, "srv", 1,
                                  "init: initialize forum repository", tree)>>]
                   /\ input' = [input EXCEPT ![p].at = "setup:write"]
                   /\ UNCHANGED last
    \/ /\ input[p].at = "setup:write"
       /\ output' = [output EXCEPT
                       !.identity = IF @ = NoIdentity THEN identity("srv") ELSE @,
                       !.repo = TRUE]
       /\ last' = Respond(p, "setup", 200)
       /\ input' = [input EXCEPT ![p].at = "setup:unlock"]
       /\ UNCHANGED <<hist, dir, keysDir, now>>
    \/ /\ input[p].at = "setup:unlock"
       /\ output' = [output EXCEPT !.mu = ""]
       /\ input' = [input EXCEPT ![p] = Idle]
       /\ UNCHANGED <<hist, last, dir, keysDir, now>>

ThreadRoot(slug) == "general/" \o slug \o "/0000_root.md"

\* POST /api/threads for the category "general", one step of goroutine `p`
\* at a time: the request is read and validated; s.identity and s.repo are
\* read and the category and the thread directory are looked up (no lock is
\* taken); CommitPost writes the file; CommitPost stages and commits it.
handleNewThread(p, slug, body) ==
    \/ /\ input[p].at = "idle"
       /\ UNCHANGED <<hist, output, dir, keysDir, now>>
       /\ IF slug = "" \/ body = ""
          THEN /\ last' = Respond(p, "newthread", 400)
               /\ UNCHANGED input
          ELSE /\ input' = [input EXCEPT
                              ![p] = [at |-> "thread:check", slug |-> slug,
                                      body |-> body]]
               /\ UNCHANGED last
    \/ /\ input[p].at = "thread:check"
       /\ UNCHANGED <<hist, output, dir, keysDir, now>>
       /\ LET status ==
                IF output.identity = NoIdentity \/ ~output.repo THEN 503
                ELSE IF "general/META.toml" \notin DOMAIN dir THEN 400
                ELSE IF ThreadRoot(input[p].slug) \in DOMAIN dir THEN 409
                ELSE 0
          IN  IF status # 0
              THEN /\ last' = Respond(p, "newthread", status)
                   /\ input' = [input EXCEPT ![p] = Idle]
              ELSE /\ input' = [input EXCEPT ![p].at = "thread:write"]
                   /\ UNCHANGED last
    \/ /\ input[p].at = "thread:write"
       /\ dir' = (ThreadRoot(input[p].slug) :> input[p].body) @@ dir
       /\ input' = [input EXCEPT ![p].at = "thread:commit"]
       /\ UNCHANGED <<hist, last, output, keysDir, now>>
    \/ /\ input[p].at = "thread:commit"
       /\ LET relPath == ThreadRoot(input[p].slug)
              tree == (relPath :> dir[relPath]) @@ HeadTree(hist["srv"])
          IN  IF tree = HeadTree(hist["srv"])
              THEN /\ last' = Respond(p, "newthread", 500)
                   /\ UNCHANGED hist
              ELSE /\ last' = Respond(p, "newthread", 201)
                   /\ hist' = [hist EXCEPT !["srv"] =
                         Append(@, Commit(output.identity, "srv", Len(@) + 1,
                                          "post: add " \o relPath, tree))]
       /\ input' = [input EXCEPT ![p] = Idle]
       /\ UNCHANGED <<output, dir, keysDir, now>>

\* A server constructed by New: without a repository (with or without an
\* identity file), or with the repository of a forum that has the category
\* "general".
InitServer ==
    /\ \E held \in BOOLEAN, id \in {NoIdentity, identity("srv")} :
          /\ held => id # NoIdentity
          /\ output = [mu |-> "", repo |-> held, identity |-> id]
          /\ LET t1 == ("GITORUM.toml" :> "m1") @@ ("keys/admin.pub" :> "KA")
                 t2 == ("general/META.toml" :> "General") @@ t1
                 c1 == Commit(identity("srv"), "srv", 1,
                              "init: initialize forum repository", t1)
                 c2 == Commit(identity("srv"), "srv", 2,
                              "category: add general", t2)
             IN  /\ dir = IF held THEN t2 ELSE <<>>
                 /\ hist = [x \in Repos |->
                              IF held /\ x = "srv" THEN <<c1, c2>> ELSE <<>>]
    /\ input = [p \in {"g1", "g2"} |-> Idle]
    /\ last = Respond("", "none", 0)
    /\ keysDir = NoInput
    /\ now = 0

NextServer ==
    \/ \E p \in {"g1", "g2"}, username \in {"", "admin"} :
          handleSetup(p, username)
    \/ \E p \in {"g1", "g2"}, slug \in {"", "t"}, body \in {"b1", "b2"} :
          handleNewThread(p, slug, body)

SpecServer == InitServer /\ [][NextServer]_vars

\* C22: every access of a handler to s.repo and s.identity is made under
\* the server mutex, so that no handler reads them while the setup handler
\* is writing them: never is one goroutine at the assignments of handleSetup
\* while another is at the reads of handleNewThread.
C22_AccessUnderMutex ==
    \A p \in DOMAIN input, q \in DOMAIN input :
        ~(input[p].at = "setup:write" /\ input[q].at = "thread:check")

\* C24: setup happens at most once per server.  A setup request that finds
\* a repository held answers 409 and changes neither the Server, the
\* working tree nor the commits; a setup request installs the repository
\* and the identity only while none is held; a held repository stays held
\* and the repository is initialized by at most one commit, however the
\* steps of two setup requests interleave.
C24_SetupOnce ==
    [][/\ \A p \in DOMAIN input :
            /\ (input[p].at = "setup:locked" /\ input'[p].at # "setup:locked"
                /\ output.repo)
                  => /\ last' = Respond(p, "setup", 409)
                     /\ UNCHANGED <<hist, dir, output>>
            /\ (input[p].at = "setup:write" /\ input'[p].at # "setup:write")
                  => /\ ~output.repo
                     /\ output'.repo
                     /\ output'.identity # NoIdentity
                     /\ last' = Respond(p, "setup", 200)
       /\ output.repo => output'.repo
       /\ Len(SelectSeq(hist'["srv"],
                        LAMBDA c : c.msg = "init: initialize forum repository"))
             <= 1
      ]_vars

\* A setup request answered 409 by a server that another setup request
\* initialized.
C24_Witness ==
    /\ last.op = "setup"
    /\ last.status = 409
    /\ Len(hist["srv"]) = 1
    /\ output.repo

\* C28: at most one new-thread request per slug succeeds.  A request
\* answered 409 or 400 changes neither the working tree nor the commits, a
\* root post that exists is never overwritten, and no two commits add the
\* root post of one thread, however the steps of two requests interleave.
C28_OneThreadPerSlug ==
    [][/\ (last' # last /\ last'.op = "newthread" /\ last'.status \in {400, 409})
             => UNCHANGED <<hist, dir>>
       /\ ThreadRoot("t") \in DOMAIN dir
             => /\ ThreadRoot("t") \in DOMAIN dir'
                /\ dir'[ThreadRoot("t")] = dir[ThreadRoot("t")]
       /\ Len(SelectSeq(hist'["srv"],
                        LAMBDA c : c.msg = "post: add " \o ThreadRoot("t")))
             <= 1
      ]_vars

\* ---------------------------------------------------------------------
\* Part VI.  The admin operations of the server together (SpecAdmin).
\*
\* The handlers of Part I and handleAdminDelete, with handleCreateCategory.
\* `input` holds, for each replica, the slugs of the categories that have a
\* META.toml in its working tree.
\* ---------------------------------------------------------------------

\* POST /api/categories.  (The tree of a commit keeps keys, requests and
\* GITORUM.toml only, so the commit of the category file repeats the tree
\* of its parent.)
handleCreateCategory(r, slug, name) ==
    /\ Room(r, 1)
    /\ UNCHANGED <<output, dir, keysDir, now>>
    /\ IF slug = "" \/ name = ""
       THEN /\ last' = Outcome("category", r, "", 400, "")
            /\ UNCHANGED <<hist, input>>
       ELSE IF requireAdmin(r) # 200
       THEN /\ last' = Outcome("category", r, "", requireAdmin(r), "")
            /\ UNCHANGED <<hist, input>>
       ELSE IF slug \in input[r]
       THEN /\ last' = Outcome("category", r, "", 409, "")
            /\ UNCHANGED <<hist, input>>
       ELSE /\ input' = [input EXCEPT ![r] = @ \cup {slug}]
            /\ Committed(r, Append(hist[r],
                  Commit(identity(r), r, Len(hist[r]) + 1,
                         "category: add " \o slug, Tree(r))))
            /\ last' = Outcome("category", r, "", 201, "")

InitAdmin ==
    /\ hist = [x \in Repos |-> <<InitCommit>>]
    /\ last = Outcome("init", "srv", "", 0, "")
    /\ input = [r \in Replicas |-> {}]
    /\ output = [op |-> "none"]
    /\ dir = <<>>
    /\ keysDir = NoInput
    /\ now = 0

\* A request to one of the admin operations of the server of replica r.
AdminRequest(r) ==
    \/ handleJoinRequests(r)
    \/ \E u \in ReqUsernames : handleApproveRequest(r, u)
    \/ \E u \in ReqUsernames : handleRejectRequest(r, u)
    \/ \E u \in ReqUsernames, k \in ReqPubKeys : handleAdminAddKey(r, u, k)
    \/ \E slug \in {"", "general"} : handleCreateCategory(r, slug, "General")
    \/ \E f \in DOMAIN dir \cup {<<>>} : handleAdminDelete(r, f)

NextAdmin ==
    \/ \E r \in Replicas : AdminRequest(r)
    \/ runRequest("cli", identity("cli"))
    \/ handleSync("srv")
    \/ PulledFile(RootFilename,
                  [IsDir |-> FALSE,
                   data |-> Format(SignPost(identity("cli"), <<>>, <<"x">>, 0))])

SpecAdmin == InitAdmin /\ [][NextAdmin]_vars

parseFilenameTime(name) ==
    IF /\ Len(name) >= 3
       /\ name[2] = "_"
       /\ \E ms \in 0..MaxClock : name[1] = UnixMilli(ms)
    THEN [ok |-> TRUE, ms |-> CHOOSE ms \in 0..MaxClock : name[1] = UnixMilli(ms)]
    ELSE [ok |-> FALSE, ms |-> 0]

\* (mutant) a scan that counts every regular file but the root.
ScanThread_CountsAllFiles(files, keys) ==
    IF RootFilename \notin DOMAIN files \/ files[RootFilename].IsDir
    THEN [err |-> "read root post", Root |-> ZeroPost, ReplyCount |-> 0,
          LastReplyAt |-> <<>>]
    ELSE LET parsed == ParsePost(RootFilename, files[RootFilename].data)
             replies == SelectSeq(ReadDir(DOMAIN files),
                           LAMBDA n : ~files[n].IsDir /\ n # RootFilename)
             timed == SelectSeq(replies, LAMBDA n : parseFilenameTime(n).ok)
         IN  IF parsed.err # ""
             THEN [err |-> "parse root post", Root |-> ZeroPost,
                   ReplyCount |-> 0, LastReplyAt |-> <<>>]
             ELSE [err |-> "",
                   Root |-> VerifySignature(parsed.post, keys),
                   ReplyCount |-> Len(replies),
                   LastReplyAt |->
                       IF timed = <<>> THEN parsed.post.TimestampRaw
                       ELSE <<RFC3339(Second(
                                parseFilenameTime(timed[Len(timed)]).ms))>>]

\* forum.ScanThread: the root post is read and parsed; every other regular
\* .md entry is counted, in directory order, and the last of them whose
\* name carries a time gives LastReplyAt.
ScanThread(files, keys) ==
    IF RootFilename \notin DOMAIN files \/ files[RootFilename].IsDir
    THEN [err |-> "read root post", Root |-> ZeroPost, ReplyCount |-> 0,
          LastReplyAt |-> <<>>]
    ELSE LET parsed == ParsePost(RootFilename, files[RootFilename].data)
             replies == SelectSeq(ReadDir(DOMAIN files),
                           LAMBDA n : /\ ~files[n].IsDir
                                      /\ HasSuffixMd(n)
                                      /\ n # RootFilename)
             timed == SelectSeq(replies, LAMBDA n : parseFilenameTime(n).ok)
         IN  IF parsed.err # ""
             THEN [err |-> "parse root post", Root |-> ZeroPost,
                   ReplyCount |-> 0, LastReplyAt |-> <<>>]
             ELSE [err |-> "",
                   Root |-> VerifySignature(parsed.post, keys),
                   ReplyCount |-> Len(replies),
                   LastReplyAt |->
                       IF timed = <<>> THEN parsed.post.TimestampRaw
                       ELSE <<RFC3339(Second(
                                parseFilenameTime(timed[Len(timed)]).ms))>>]

\* GET /api/categories/{cat}/threads, for the one thread directory.
handleThreads ==
    /\ output' = [op |-> "scan", scan |-> ScanThread(dir, keysDir)]
    /\ UNCHANGED <<hist, last, input, dir, keysDir, now>>

InitScan ==
    /\ hist = [x \in Repos |-> <<InitCommit>>]
    /\ last = Outcome("init", "srv", "", 0, "")
    /\ input = NoInput
    /\ output = [op |-> "none"]
    /\ dir = <<>>
    /\ keysDir \in KeyDirs({KeyFile("KB")})
    /\ now = 0

\* What is pulled into the thread directory: a root post signed in the
\* last second of the clock, or a malformed one; replies named in the
\* first and in the last second; a file that is no post; a subdirectory.
NextScan ==
    \/ \E d \in {Format(SignPost(identity("cli"), <<>>, <<"x">>, MaxClock)),
                 <<"x">>} :
          PulledFile(RootFilename, [IsDir |-> FALSE, data |-> d])
    \/ \E ms \in {0, MaxClock} :
          PulledFile(NewPostFilename(ThreadBodies[1], ms),
                     [IsDir |-> FALSE,
                      data |-> Format(SignPost(identity("cli"), <<>>,
                                               ThreadBodies[1], ms))])
    \/ PulledFile(<<"README", ".txt">>, [IsDir |-> FALSE, data |-> <<"x">>])
    \/ PulledFile(<<"drafts", ".md">>, [IsDir |-> TRUE, data |-> <<>>])
    \/ \E f \in DOMAIN dir : handleAdminDelete("srv", f)
    \/ handleThreads

SpecScan == InitScan /\ [][NextScan]_vars

\* The reply files of the thread directory.
ReplyFiles == PostFiles \ {RootFilename}

C30_ListAgreesWithThread ==
    (output.op = "scan" /\ output.scan.err = "")
        => output.scan.ReplyCount =
              Cardinality({i \in 1..Len(LoadThread(dir, keysDir).Posts) :
                  LoadThread(dir, keysDir).Posts[i].Filename # RootFilename})

\* ---------------------------------------------------------------------
\* Part VIII.  One signature, two posts (SpecForge).
\*
\* `input` is a pair of posts, each the four signed fields and a body.
\* The values drawn are strings a TOML front matter can hold: plain ones,
\* and ones with a newline or a "key=" line inside.
\* ---------------------------------------------------------------------

\* SignPost signs post `a` with bob's key; VerifySignature rebuilds the
\* canonical form from the fields and body of post `b` and verifies the
\* signature of `a` under bob's public key.
VerifyOtherPost ==
    /\ output.op = "none"
    /\ LET order == Ascending(PostKeys)
           sig == Sign(PrivOf("KB"),
                       CanonicalForm(order, input.a.fields, input.a.body))
       IN  output' = [op |-> "verify",
                      err |-> Verify("KB",
                                     CanonicalForm(Reverse(order),
                                                   input.b.fields, input.b.body),
                                     sig)]
    /\ UNCHANGED <<hist, last, input, dir, keysDir, now>>

InitForge ==
    /\ hist = [x \in Repos |-> <<InitCommit>>]
    /\ last = Outcome("init", "srv", "", 0, "")
    /\ LET posts ==
              {[fields |-> [k \in PostKeys |->
                               CASE k = author -> <<"bob">>
                                 [] k = parent -> q
                                 [] k = pubkey -> pk
                                 [] k = timestamp -> ts],
                body |-> b] :
                  q \in {<<"p">>, <<"p", NL>> \o pubkey \o <<"=", "KB">>},
                  pk \in {<<"KB">>, <<"KB", NL>> \o pubkey \o <<"=", "KB">>},
                  ts \in {<<"2026-02-17T10:00:00Z">>},
                  b \in {<<>>, <<"x">>, <<NL, "x">>}}
       IN  input \in [a : posts, b : posts]
    /\ output = [op |-> "none"]
    /\ dir = NoInput
    /\ keysDir = NoInput
    /\ now = 0

NextForge == VerifyOtherPost

SpecForge == InitForge /\ [][NextForge]_vars

\* C29: the canonical form is injective on posts, so that a signature made
\* for one post verifies for no post that differs from it in the body or
\* in the value of a signed field.
C29_CanonicalInjective ==
    (output.op = "verify" /\ input.a # input.b) => output.err # ""

\* ---------------------------------------------------------------------
\* Part IX.  Join requests and the signature status of posts (SpecBadge).
\*
\* The admin's server with the handlers of Part I; `dir` is a thread
\* directory of its working tree, which holds the root post bob signed
\* with the key he requests to join with.
\* ---------------------------------------------------------------------

\* The directory keys/ of a working tree, as VerifySignature reads it.
KeysDirOf(tree) ==
    [u \in Usernames |->
        IF tree.keys[u] = None THEN NoKeyFile ELSE KeyFile(tree.keys[u])]

\* GET /api/threads/{cat}/{thread} on the server of replica r: the thread
\* is loaded against keys/ of the working tree.
handleThreadOf(r) ==
    /\ output' = [op |-> "load", thread |-> LoadThread(dir, KeysDirOf(Tree(r)))]
    /\ UNCHANGED <<hist, last, input, dir, keysDir, now>>

InitBadge ==
    /\ hist = [x \in Repos |-> <<InitCommit>>]
    /\ last = Outcome("init", "srv", "", 0, "")
    /\ input = NoInput
    /\ output = [op |-> "none"]
    /\ dir = <<>>
    /\ keysDir = NoInput
    /\ now = 0

NextBadge ==
    \/ PulledFile(RootFilename,
                  [IsDir |-> FALSE,
                   data |-> Format(SignPost(identity("cli"), <<>>, <<"x">>, 0))])
    \/ runRequest("cli", identity("cli"))
    \/ handleSync("srv")
    \/ handleApproveRequest("srv", "bob")
    \/ handleRejectRequest("srv", "bob")
    \/ \E k \in ReqPubKeys : handleAdminAddKey("srv", "bob", k)
    \/ handleThreadOf("srv")

SpecBadge == InitBadge /\ [][NextBadge]_vars

\* The status bob's post was loaded with (none when it was not loaded).
BadgeOfBob ==
    IF output.op = "load" /\ Len(output.thread.Posts) = 1
    THEN output.thread.Posts[1].SigStatus ELSE "none"

\* The messages of the commits of the admin's repository.
Messages == {hist["srv"][i].msg : i \in 1..Len(hist["srv"])}

\* C26 as stated: bob's post loads as missing while bob has no key in
\* keys/, as valid whenever it is loaded after his request was approved,
\* and as missing whenever it is loaded after his request was rejected and
\* not approved.
C26_ValidEverAfterApproval ==
    [][(handleThreadOf("srv") /\ BadgeOfBob' # "none") =>
          /\ Tree("srv").keys["bob"] = None => BadgeOfBob' = SigMissing
          /\ "keys: approve" \in Messages => BadgeOfBob' = SigValid
          /\ ("requests: reject" \in Messages /\ "keys: approve" \notin Messages)
                => BadgeOfBob' = SigMissing
      ]_vars

\* ---------------------------------------------------------------------
\* Part X.  The sync handler with its timestamp (SpecAuto).
\*
\* `input` holds lastSyncAt of each server: 0 for the zero time, else one
\* more than the reading of the clock.
\* ---------------------------------------------------------------------

\* (mutant) a sync handler that approves whatever GITORUM.toml says.
handleSyncTimed_AlwaysApproves(r) ==
    /\ UNCHANGED <<output, dir, keysDir>>
    /\ LET pull == Pull(hist[r], hist[Origin]) IN
       IF pull.err
       THEN /\ last' = Outcome("sync", r, "", 500, "")
            /\ UNCHANGED <<hist, input, now>>
       ELSE LET h2 == IF identity(r).PublicKey = ReadMeta(pull.h).AdminPubkey
                      THEN ApproveAll(pull.h, r, identity(r),
                                      JoinRequests(TreeOf(pull.h)))
                      ELSE pull.h
            IN  /\ Room(r, Len(h2) - Len(pull.h))
                /\ \E ms \in now..(IF now < MaxClock THEN now + 1 ELSE now) :
                      /\ now' = ms
                      /\ input' = [input EXCEPT ![r] = ms + 1]
                /\ last' = Outcome("sync", r, "", 200, "")
                /\ Committed(r, h2)

\* GET /api/sync with s.lastSyncAt: pull, and 500 when it fails; then
\* lastSyncAt = time.Now(), the clock standing where it was or one
\* millisecond on; auto-approve when GITORUM.toml says so and the running
\* identity is the admin; push.
handleSyncTimed(r) ==
    /\ UNCHANGED <<output, dir, keysDir>>
    /\ LET pull == Pull(hist[r], hist[Origin]) IN
       IF pull.err
       THEN /\ last' = Outcome("sync", r, "", 500, "")
            /\ UNCHANGED <<hist, input, now>>
       ELSE LET meta == ReadMeta(pull.h)
                h2 == IF meta.AutoApproveKeys
                         /\ identity(r).PublicKey = meta.AdminPubkey
                      THEN ApproveAll(pull.h, r, identity(r),
                                      JoinRequests(TreeOf(pull.h)))
                      ELSE pull.h
            IN  /\ Room(r, Len(h2) - Len(pull.h))
                /\ \E ms \in now..(IF now < MaxClock THEN now + 1 ELSE now) :
                      /\ now' = ms
                      /\ input' = [input EXCEPT ![r] = ms + 1]
                /\ last' = Outcome("sync", r, "", 200, "")
                /\ Committed(r, h2)

InitAuto ==
    /\ hist = [x \in Repos |-> <<InitCommit>>]
    /\ last = Outcome("init", "srv", "", 0, "")
    /\ input = [r \in Replicas |-> 0]
    /\ output = NoInput
    /\ dir = NoInput
    /\ keysDir = NoInput
    /\ now = 0

NextAuto ==
    \/ \E r \in Replicas : handleSyncTimed(r)
    \/ \E id \in Identities : runRequest("cli", id)
    \/ \E auto \in BOOLEAN : runConfig("srv", auto)

SpecAuto == InitAuto /\ [][NextAuto]_vars

\* C27: a sync whose pull fails answers 500 and changes neither lastSyncAt
\* nor any repository (nothing is approved, nothing pushed).  A sync whose
\* pull succeeds sets lastSyncAt and pushes; beyond what the pull brought,
\* it changes keys/ and requests/ only when GITORUM.toml enables
\* auto-approve and the running identity holds the admin key, and then
\* every pending request has become a key.
C27_AutoApprove ==
    [][\A r \in Replicas :
          handleSyncTimed(r) =>
             LET pull == Pull(hist[r], hist[Origin])
                 before == TreeOf(pull.h)
                 after == TreeOf(hist'[r])
                 auto == /\ ReadMeta(pull.h).AutoApproveKeys
                         /\ identity(r).PublicKey = ReadMeta(pull.h).AdminPubkey
             IN  IF pull.err
                 THEN /\ last'.status = 500
                      /\ UNCHANGED <<hist, input>>
                 ELSE /\ last'.status = 200
                      /\ input'[r] # 0
                      /\ hist'[Origin] = hist'[r]
                      /\ ~auto => hist'[r] = pull.h
                      /\ auto =>
                           \A u \in Usernames :
                              IF before.requests[u] # None /\ before.keys[u] = None
                              THEN /\ after.keys[u] = before.requests[u]
                                   /\ after.requests[u] = None
                              ELSE /\ after.keys[u] = before.keys[u]
                                   /\ after.requests[u] = before.requests[u]
      ]_vars

\* The admin's sync has approved bob's request and pushed the approval.
C27_Witness ==
    /\ last = Outcome("sync", "srv", "", 200, "")
    /\ HeadCommit(hist["srv"]).msg = "keys: approve"
    /\ Tree("srv").keys["bob"] # None
    /\ hist[Origin] = hist["srv"]
    /\ input["srv"] # 0

====
